---- MODULE Spec2Model ----
(***************************************************************************)
(* A model of mini-swe-agent: the DefaultAgent control loop                *)
(* (agents/default.py) with its model and environment collaborators, the   *)
(* HarborMiniAgent step wrapper, the query methods of the model clients    *)
(* and the execute_messages loops of the environment back-ends.            *)
(*                                                                         *)
(* Texts are sequences of tokens.  In a model response "open" stands for   *)
(* the opening fence of the action regex ("```bash" and the newline after  *)
(* it), "close" for the closing fence (a newline and "```"), "ws" for      *)
(* white space and "txt"/"cmd" for any other text.  A command output is a  *)
(* sequence of lines, Blank being a line of white space only.              *)
(***************************************************************************)
EXTENDS Integers, Sequences, FiniteSets, TLC

\* ------------------------------------------------------------------ bounds
MaxSteps == 3        \* cap on the model queries of one run (the loop itself is unbounded)
MaxStepLimit == 2    \* step_limit is drawn from 0..MaxStepLimit
MaxCostLimit == 2    \* cost_limit is drawn from 0..MaxCostLimit
MaxCallCost == 2     \* the cost of one model call is drawn from 1..MaxCallCost
NumModels == 2       \* the model objects of one process
MaxCostQueries == 3  \* cap on the queries made of the model objects of one process
MaxSaves == 3        \* cap on the saves of one trajectory file
MaxChunks == 3       \* a serialized trajectory reaches the file in at most this many writes
NumInstances == 3    \* the task instances of one batch
MaxWorkers == 2      \* the worker count of a batch is drawn from 1..MaxWorkers
MaxLog == 7          \* cap on the log of a run with a Responses API client
MaxRequests == 4     \* cap on the provider requests of a Responses API client
MaxCalls == 3        \* cap on the calls of an environment's execute
MaxMemLog == 14      \* cap on the log of a MemoryAgent run
MaxStream == 4       \* cap on the chunks of one streamed response
GuardWindow == 3     \* stream_guard_window, counted in streamed pieces of content
TagThreshold == 2    \* stream_guard_tag_threshold
MaxDicts == 3        \* cap on the dictionaries of one call of recursive_merge
MaxPrompts == 3      \* cap on the inputs read by the prompt routine in one run

\* --------------------------------------------------------------- constants
Null == "null"
NoFile == [messages |-> <<>>, info |-> [exit_status |-> "nofile", submission |-> <<>>, traceback |-> Null]]
Blank == ""
SENTINEL == "COMPLETE_TASK_AND_SUBMIT_FINAL_OUTPUT"
LEGACY_SENTINEL == "MINI_SWE_AGENT_FINAL_OUTPUT"
PaddedSentinel == "  COMPLETE_TASK_AND_SUBMIT_FINAL_OUTPUT  "

\* agents/default.py, the exception classes
NonTerminating == {"FormatError", "ExecutionTimeoutError"}
Terminating == {"Submitted", "LimitsExceeded"}
OtherExceptions == {"RuntimeError", "OSError"}

VARIABLES
    pc,            \* where run() stands: "init", "loop", "observe", "except", "done"
    messages,      \* DefaultAgent.messages
    response,      \* the response step() hands from query() to get_observation()
    n_calls,       \* model.n_calls
    cost,          \* model.cost
    n_queries,     \* calls of model.query made by the agent
    executed,      \* the commands handed to env.execute, each with the log index of its turn
    step_limit,    \* AgentConfig.step_limit
    cost_limit,    \* AgentConfig.cost_limit
    cost_per_call, \* what the model charges for one call
    output_path,   \* AgentConfig.output_path is set
    traj_path,     \* HarborMiniAgent.traj_path is set (FALSE: a plain DefaultAgent)
    out_file,      \* the trajectory file at output_path
    traj_file,     \* the trajectory file at traj_path
    result,        \* how run() ended
    exc            \* the exception the last failed step raised, with its text

agentVars == <<pc, messages, response, n_calls, cost, n_queries, executed, step_limit, cost_limit,
               cost_per_call, output_path, traj_path, out_file, traj_file, result, exc>>

VARIABLES
    mq_client,     \* the model client whose query() is called
    mq_response,   \* what the provider answers: a text and a list of tool calls
    mq_out         \* what query() gave: the returned message or the exception raised

modelVars == <<mq_client, mq_response, mq_out>>

VARIABLES
    em_env,        \* the environment back-end whose execute_messages() runs
    em_messages,   \* its messages argument: for each message, whether it has extra.action
    em_i,          \* the index of the message the loop is at
    em_results,    \* the observation messages collected so far
    em_execs,      \* the indices of the messages whose action was handed to execute()
    em_timedout,   \* the indices of the messages whose action timed out
    em_output,     \* what the last call of execute() returned
    em_submission, \* the payload of the Submitted that _check_finished raised
    em_state       \* "running", "returned", or the exception that ended the call

envVars == <<em_env, em_messages, em_i, em_results, em_execs, em_timedout, em_output,
            em_submission, em_state>>

VARIABLES
    ia_pc,           \* where the InteractiveAgent stands: "step", "actions", "except", "done"
    ia_mode,         \* InteractiveAgentConfig.mode
    ia_confirm_exit, \* InteractiveAgentConfig.confirm_exit
    ia_step_limit,   \* config.step_limit, which query() may ask the user to renew
    ia_messages,     \* the agent's messages
    ia_actions,      \* the actions of the message execute_actions() is working on
    ia_k,            \* the index of the action execute_actions() is at
    ia_outputs,      \* the outputs execute_actions() has collected
    ia_executed,     \* the actions handed to env.execute
    ia_answers,      \* the answers the user gave to confirmation prompts
    ia_input,        \* what the last prompt returned
    ia_n_calls,      \* the model calls so far
    ia_steps,        \* the steps begun so far
    ia_exc,          \* the exception the step raised
    ia_result        \* how the run ended

iaVars == <<ia_pc, ia_mode, ia_confirm_exit, ia_step_limit, ia_messages, ia_actions, ia_k,
           ia_outputs, ia_executed, ia_answers, ia_input, ia_n_calls, ia_steps, ia_exc, ia_result>>

VARIABLES
    rt_client,       \* the model client whose _query() is called
    rt_env,          \* MSWEA_MODEL_RETRY_STOP_AFTER_ATTEMPT: 0 if unset, else its value
    rt_attempts,     \* the provider requests made so far
    rt_last_error,   \* the error of the last request that failed
    rt_state,        \* "calling", "waiting" (before a retry), "returned" or "raised"
    rt_raised        \* the exception _query() raised

retryVars == <<rt_client, rt_env, rt_attempts, rt_last_error, rt_state, rt_raised>>

Models == 1..NumModels

VARIABLES
    cs_client,       \* for each model object, its class
    cs_tracking,     \* MSWEA_COST_TRACKING, the default of the configs' cost_tracking
    cs_n_calls,      \* for each model object, its n_calls
    cs_cost,         \* for each model object, its cost
    cs_global,       \* GLOBAL_MODEL_STATS: n_calls and cost
    cs_obtained,     \* for each model object, the number and the summed cost of the
                     \* responses its query() returned
    cs_last          \* the last query: the model, the calculator's outcome, the result

costVars == <<cs_client, cs_tracking, cs_n_calls, cs_cost, cs_global, cs_obtained, cs_last>>

VARIABLES
    fo_dialect,      \* whose format_observation_messages is called
    fo_actions,      \* extra.actions of the assistant message
    fo_outputs,      \* the outputs argument
    fo_done,         \* the call has returned
    fo_result        \* the messages it returned

formatVars == <<fo_dialect, fo_actions, fo_outputs, fo_done, fo_result>>

VARIABLES
    lc_env,          \* the environment class
    lc_state,        \* "new", "ready", "ended", "failed" (__init__ raised), "destroyed"
    lc_handle,       \* the object holds the name of its resource (container_id, sandbox_dir,
                     \* working_dir, deployment)
    lc_held,         \* the container, sandbox or directory exists
    lc_attempts,     \* the sandbox builds tried by _build_sandbox
    lc_execs,        \* the commands executed
    lc_end           \* how the run ended

lifeVars == <<lc_env, lc_state, lc_handle, lc_held, lc_attempts, lc_execs, lc_end>>

VARIABLES
    sv_saver,        \* who saves: "save" (DefaultAgent.save) or "save_traj"
    sv_pc,           \* "idle", "writing" (the file is open), "crashed"
    sv_doc,          \* the document being written: its version and its length in chunks
    sv_file,         \* the file at the path: the version of the document it holds, how
                     \* many chunks of it, and how many chunks the whole document has
    sv_saves         \* the saves begun so far

saveVars == <<sv_saver, sv_pc, sv_doc, sv_file, sv_saves>>

VARIABLES
    rn_unbound       \* the templates of the config that reference a variable nothing binds

renderVars == <<rn_unbound>>

Instances == 1..NumInstances

VARIABLES
    bt_workers,      \* the worker count N of the batch (0: no batch)
    bt_existing,     \* the instances whose trajectory file exists and is well-formed
    bt_redo,         \* redo_existing
    bt_status,       \* for each instance: "pending", "skipped", "running", "submitted",
                     \* "failed", "cancelled" or "aborted"
    bt_interrupts    \* the interrupts received

batchVars == <<bt_workers, bt_existing, bt_redo, bt_status, bt_interrupts>>

VARIABLES
    ra_client,       \* the Responses API client: its class
    ra_mode,         \* the InteractiveAgent's mode: "human" or "confirm"
    ra_pc,           \* "query", "retry" (inside _query, before the next attempt),
                     \* "actions" (an assistant message awaits execution), "done"
    ra_log,          \* the agent's messages: the kind of each
    ra_previous_response_id,  \* _previous_response_id (0: None)
    ra_requests,     \* the provider requests made so far; the n-th response has id n
    ra_ok_id,        \* the id of the most recent response a request returned (0: none)
    ra_mark,         \* the length of the log when that response had been logged
    ra_last          \* the last request: its input (indices of the log), the
                     \* previous_response_id sent, whether it returned, and what ra_ok_id
                     \* and the messages appended since ra_mark were before it

responseVars == <<ra_client, ra_mode, ra_pc, ra_log, ra_previous_response_id, ra_requests,
                 ra_ok_id, ra_mark, ra_last>>

VARIABLES
    ex_env,          \* the environment class
    ex_pc,           \* "ready", or "second" (inside ContreeEnvironment.execute, after its
                     \* first session.run)
    ex_counter,      \* a counter in the environment that the command "incr" increments
    ex_calls,        \* the calls of execute begun so far
    ex_incrs,        \* how many of them were given the command "incr"
    ex_call          \* the last call: its command, how often the command was run in the
                     \* environment, and how the call ended

executeVars == <<ex_env, ex_pc, ex_counter, ex_calls, ex_incrs, ex_call>>

VARIABLES
    mm_threshold,    \* MemoryAgent.summarization_threshold
    mm_keep,         \* MemoryAgent.recent_messages_keep
    mm_len,          \* len(self.messages); message 1 is the system message
    mm_pc,           \* "query" or "observe"
    mm_last_summary_at,  \* MemoryAgent.last_summary_at
    mm_summary,      \* MemoryAgent.current_summary: the messages it was built from and
                     \* whether its text is non-empty
    mm_context       \* the context of the last query: whether the system message is in it,
                     \* the messages the injected summary was built from, the messages
                     \* sent as they are, and the length of the log

memoryVars == <<mm_threshold, mm_keep, mm_len, mm_pc, mm_last_summary_at, mm_summary, mm_context>>

VARIABLES
    sg_streaming,    \* LitellmModelConfig.use_streaming
    sg_enabled,      \* LitellmModelConfig.stream_guard_enabled
    sg_pc,           \* "idle", "ready", "stream", "ended" or "returned"
    sg_chunks,       \* the chunks read from the stream
    sg_parts,        \* content_parts
    sg_tail,         \* tail_buffer
    sg_usage,        \* the usage of the last chunk that carried one
    sg_triggered,    \* the guard broke the loop
    sg_requests,     \* the calls of litellm.completion made by this _query
    sg_result        \* what _query returned

streamVars == <<sg_streaming, sg_enabled, sg_pc, sg_chunks, sg_parts, sg_tail, sg_usage,
                sg_triggered, sg_requests, sg_result>>

VARIABLES
    mg_pc,           \* "idle", "merge" or "returned"
    mg_count,        \* the dictionaries the loop of recursive_merge has passed
    mg_before,       \* result before the last dictionary
    mg_last,         \* the last dictionary
    mg_result        \* result

mergeVars == <<mg_pc, mg_count, mg_before, mg_last, mg_result>>

VARIABLES
    ps_package,      \* "minisweagent" or "microsweagent": whose InteractiveAgent
    ps_mode,         \* self.config.mode
    ps_pc,           \* "idle", "prompt" (the routine waits for an input) or "returned"
    ps_prompts,      \* the inputs read
    ps_input,        \* the last input, as typed
    ps_before,       \* the mode when the last input was read
    ps_returned      \* what the routine returned last

promptVars == <<ps_package, ps_mode, ps_pc, ps_prompts, ps_input, ps_before, ps_returned>>

\* the components of the last sections
lateVars == <<renderVars, batchVars, responseVars, executeVars, memoryVars, streamVars, mergeVars, promptVars>>

\* the components whose specifications come after the retries
moreVars == <<costVars, formatVars, lifeVars, saveVars, lateVars>>

\* the components beside the agent, the model clients and the environments
extVars == <<iaVars, retryVars, moreVars>>

baseVars == <<agentVars, modelVars, envVars, iaVars, retryVars>>

\* what the actions of one of the later components leave alone
exceptCost == <<baseVars, formatVars, lifeVars, saveVars, lateVars>>
exceptFormat == <<baseVars, costVars, lifeVars, saveVars, lateVars>>
exceptLife == <<baseVars, costVars, formatVars, saveVars, lateVars>>
exceptSave == <<baseVars, costVars, formatVars, lifeVars, lateVars>>

\* the components of the sections before the last ones
earlyVars == <<baseVars, costVars, formatVars, lifeVars, saveVars>>

\* what the actions of one of the last components leave alone
exceptBatch == <<earlyVars, renderVars, responseVars, executeVars, memoryVars, streamVars, mergeVars, promptVars>>
exceptResponse == <<earlyVars, renderVars, batchVars, executeVars, memoryVars, streamVars, mergeVars, promptVars>>
exceptExecute == <<earlyVars, renderVars, batchVars, responseVars, memoryVars, streamVars, mergeVars, promptVars>>
exceptMemory == <<earlyVars, renderVars, batchVars, responseVars, executeVars, streamVars, mergeVars, promptVars>>
exceptStream == <<earlyVars, renderVars, batchVars, responseVars, executeVars, memoryVars, mergeVars, promptVars>>
exceptMerge == <<earlyVars, renderVars, batchVars, responseVars, executeVars, memoryVars, streamVars, promptVars>>
exceptPrompt == <<earlyVars, renderVars, batchVars, responseVars, executeVars, memoryVars, streamVars, mergeVars>>

vars == <<agentVars, modelVars, envVars, extVars>>

config == <<step_limit, cost_limit, cost_per_call, output_path, traj_path>>

\* ----------------------------------------------------------------- helpers
Last(s) == s[Len(s)]

IsPrefix(s, t) == Len(s) <= Len(t) /\ SubSeq(t, 1, Len(s)) = s

NatStr(n) == CASE n = 0 -> "0" [] n = 1 -> "1" [] n = 2 -> "2" [] OTHER -> "many"

\* the least index >= from at which s holds tok, or 0
FirstIdx(s, tok, from) ==
    LET hits == {i \in from..Len(s) : s[i] = tok}
    IN IF hits = {} THEN 0 ELSE CHOOSE i \in hits : \A j \in hits : i <= j

\* str.strip() on a token text: white space removed at both ends
RECURSIVE LStrip(_)
LStrip(s) == IF s # <<>> /\ s[1] = "ws" THEN LStrip(Tail(s)) ELSE s

RECURSIVE RStrip(_)
RStrip(s) == IF s # <<>> /\ Last(s) = "ws" THEN RStrip(SubSeq(s, 1, Len(s) - 1)) ELSE s

Strip(s) == RStrip(LStrip(s))

\* re.findall(action_regex, content, re.DOTALL): the groups of the non-overlapping
\* matches, leftmost first, each match ending at the nearest closing fence
RECURSIVE FindAllFrom(_, _)
FindAllFrom(s, from) ==
    LET i == FirstIdx(s, "open", from)
        j == IF i = 0 THEN 0 ELSE FirstIdx(s, "close", i + 1)
    IN IF i = 0 \/ j = 0 THEN <<>>
       ELSE <<SubSeq(s, i + 1, j - 1)>> \o FindAllFrom(s, j + 1)

FindAll(content) == FindAllFrom(content, 1)

\* output.lstrip().splitlines(): leading blank lines are dropped
RECURSIVE LStripLines(_)
LStripLines(ls) == IF ls # <<>> /\ ls[1] = Blank THEN LStripLines(Tail(ls)) ELSE ls

\* output.rstrip().splitlines(): trailing blank lines are dropped
RECURSIVE RStripLines(_)
RStripLines(ls) ==
    IF ls # <<>> /\ Last(ls) = Blank THEN RStripLines(SubSeq(ls, 1, Len(ls) - 1)) ELSE ls

\* line.strip(): the white space around the text of a line is dropped
StripLine(line) == IF line = PaddedSentinel THEN SENTINEL ELSE line

\* the sequences over S of length at most n
SeqsUpTo(S, n) == UNION {[1..k -> S] : k \in 0..n}

\* ------------------------------------------------------------------ inputs
SystemPrompt == <<"system_template">>
InstancePrompt == <<"instance_template", "task">>

\* what the language model may answer
ModelOutputs ==
    { <<"txt">>,
      <<"txt", "open", "ws", "cmd", "close", "txt">>,
      <<"open", "cmd", "close", "open", "cmd", "close">> }

\* what env.execute may return
EnvOutputs ==
    { [output |-> <<"out">>, returncode |-> 0],
      [output |-> <<"out", SENTINEL>>, returncode |-> 0],
      [output |-> <<Blank, SENTINEL, "out">>, returncode |-> 0],
      [output |-> <<PaddedSentinel, "out">>, returncode |-> 0],
      [output |-> <<"out", SENTINEL, Blank>>, returncode |-> 0],
      [output |-> <<SENTINEL>>, returncode |-> 1] }

\* no call of execute() has returned yet
NoOutput == [output |-> <<>>, returncode |-> -1]

\* the output a timed-out command had produced
PartialOutputs == { <<>>, <<"out">> }

\* ------------------------------------------------------------ DefaultAgent
\* a log that takes the new message at its head
AddMessageFront(msgs, role, content) == <<[role |-> role, content |-> content]>> \o msgs

AddMessage(msgs, role, content) == Append(msgs, [role |-> role, content |-> content])

EmptyInfo == [exit_status |-> Null, submission |-> <<>>, traceback |-> Null]

\* DefaultAgent.save: the file at output_path holds the log and the merged info
Save(file, msgs, info) ==
    IF output_path THEN [messages |-> msgs, info |-> info] ELSE file

\* HarborMiniAgent.step, the finally clause: save_traj(self, self.traj_path)
SaveTraj(file, msgs) ==
    IF traj_path THEN [messages |-> msgs, info |-> EmptyInfo] ELSE file

\* a limit check that lets the call count pass the limit by one
LimitsReachedLate ==
    \/ (0 < step_limit /\ step_limit < n_calls)
    \/ (0 < cost_limit /\ cost_limit <= cost)

\* a limit check that takes a limit of 0 for a limit
LimitsReachedZero ==
    \/ step_limit <= n_calls
    \/ cost_limit <= cost

\* DefaultAgent.query, the limit check
LimitsReached ==
    \/ (0 < step_limit /\ step_limit <= n_calls)
    \/ (0 < cost_limit /\ cost_limit <= cost)

\* a parse that settles for the first of several matches
ParseActionFirst(content) ==
    IF FindAll(content) = <<>> THEN <<>> ELSE <<FindAll(content)[1]>>

\* DefaultAgent.parse_action: the actions of a response
ParseAction(content) == FindAll(content)

\* DefaultAgent.has_finished
HasFinished(output) ==
    LET lines == LStripLines(output.output)
    IN lines # <<>> /\ StripLine(lines[1]) \in {LEGACY_SENTINEL, SENTINEL}

Submission(output) == Tail(LStripLines(output.output))

\* the role run() gives the message that carries an exception's text
ExceptionRole(e) == "user"

\* an info without the traceback
ExitInfoNoTraceback(e, text) == [exit_status |-> e, submission |-> text, traceback |-> Null]

\* the info run() builds for an exception that ends the run
ExitInfo(e, text) ==
    [exit_status |-> e, submission |-> text,
     traceback |-> IF e \in Terminating THEN Null ELSE "traceback"]

NoException == [e |-> "none", text |-> <<>>]

\* step() raises e with str(e) = text; HarborMiniAgent.step saves on its way out
Raise(e, text) ==
    /\ exc' = [e |-> e, text |-> text]
    /\ traj_file' = SaveTraj(traj_file, messages)
    /\ pc' = "except"

\* the components no run uses stay as they are
AgentIdle ==
    /\ pc = "idle"
    /\ messages = <<>>
    /\ response = <<>>
    /\ n_queries = 0
    /\ executed = <<>>
    /\ step_limit = 0
    /\ cost_limit = 0
    /\ output_path = FALSE
    /\ traj_path = FALSE
    /\ out_file = NoFile
    /\ traj_file = NoFile
    /\ result = [kind |-> "none", exit_status |-> Null, submission |-> <<>>]
    /\ exc = NoException

ModelIdle ==
    /\ mq_client = "none"
    /\ mq_response = [content |-> <<>>, tool_calls |-> <<>>]
    /\ mq_out = [kind |-> "none", exc |-> "none", has_actions |-> FALSE, actions |-> <<>>]

NoInterruption == [e |-> "none", trigger |-> "none", kind |-> "none", content |-> <<>>]

IaIdle ==
    /\ ia_pc = "idle"
    /\ ia_mode = "confirm"
    /\ ia_confirm_exit = TRUE
    /\ ia_step_limit = 0
    /\ ia_messages = <<>>
    /\ ia_actions = <<>>
    /\ ia_k = 0
    /\ ia_outputs = <<>>
    /\ ia_executed = <<>>
    /\ ia_answers = {}
    /\ ia_input = "none"
    /\ ia_n_calls = 0
    /\ ia_steps = 0
    /\ ia_exc = NoInterruption
    /\ ia_result = "none"

RetryIdle ==
    /\ rt_client = "none"
    /\ rt_env = 0
    /\ rt_attempts = 0
    /\ rt_last_error = "none"
    /\ rt_state = "idle"
    /\ rt_raised = "none"

NoQuery == [model |-> 0, failed |-> FALSE, calc |-> 0, kind |-> "none", exc |-> "none", cost |-> 0]

CostIdle ==
    /\ cs_client = [m \in Models |-> "none"]
    /\ cs_tracking = "default"
    /\ cs_n_calls = [m \in Models |-> 0]
    /\ cs_cost = [m \in Models |-> 0]
    /\ cs_global = [n_calls |-> 0, cost |-> 0]
    /\ cs_obtained = [m \in Models |-> [n |-> 0, cost |-> 0]]
    /\ cs_last = NoQuery

FormatIdle ==
    /\ fo_dialect = "none"
    /\ fo_actions = <<>>
    /\ fo_outputs = <<>>
    /\ fo_done = FALSE
    /\ fo_result = <<>>

LifeIdle ==
    /\ lc_env = "none"
    /\ lc_state = "idle"
    /\ lc_handle = FALSE
    /\ lc_held = FALSE
    /\ lc_attempts = 0
    /\ lc_execs = 0
    /\ lc_end = "none"

NoDoc == [version |-> 0, chunks |-> 0]

\* no file at the path
NoSavedFile == [exists |-> FALSE, version |-> 0, chunks |-> 0, total |-> 0]

SaveIdle ==
    /\ sv_saver = "none"
    /\ sv_pc = "off"
    /\ sv_doc = NoDoc
    /\ sv_file = NoSavedFile
    /\ sv_saves = 0

BatchIdle ==
    /\ bt_workers = 0
    /\ bt_existing = {}
    /\ bt_redo = FALSE
    /\ bt_status = [i \in Instances |-> "none"]
    /\ bt_interrupts = 0

NoRequest ==
    [input |-> {}, previous |-> 0, ok |-> FALSE, latest |-> 0, since |-> {}, len |-> 0, n |-> 0]

ResponseIdle ==
    /\ ra_client = "none"
    /\ ra_mode = "none"
    /\ ra_pc = "idle"
    /\ ra_log = <<>>
    /\ ra_previous_response_id = 0
    /\ ra_requests = 0
    /\ ra_ok_id = 0
    /\ ra_mark = 0
    /\ ra_last = NoRequest

NoCall == [command |-> "none", runs |-> 0, ended |-> "none"]

ExecuteIdle ==
    /\ ex_env = "none"
    /\ ex_pc = "idle"
    /\ ex_counter = 0
    /\ ex_calls = 0
    /\ ex_incrs = 0
    /\ ex_call = NoCall

NoSummary == [range |-> {}, text |-> FALSE]

NoContext == [system |-> FALSE, summary |-> {}, recent |-> {}, len |-> 0]

MemoryIdle ==
    /\ mm_threshold = 0
    /\ mm_keep = 0
    /\ mm_len = 0
    /\ mm_pc = "idle"
    /\ mm_last_summary_at = 0
    /\ mm_summary = NoSummary
    /\ mm_context = NoContext

NoResponse == [source |-> "none", content |-> <<>>]

StreamIdle ==
    /\ sg_streaming = FALSE
    /\ sg_enabled = FALSE
    /\ sg_pc = "idle"
    /\ sg_chunks = 0
    /\ sg_parts = <<>>
    /\ sg_tail = <<>>
    /\ sg_usage = "none"
    /\ sg_triggered = FALSE
    /\ sg_requests = 0
    /\ sg_result = NoResponse

MergeIdle ==
    /\ mg_pc = "idle"
    /\ mg_count = 0
    /\ mg_before = <<>>
    /\ mg_last = <<>>
    /\ mg_result = <<>>

PromptIdle ==
    /\ ps_package = "none"
    /\ ps_mode = "none"
    /\ ps_pc = "idle"
    /\ ps_prompts = 0
    /\ ps_input = "none"
    /\ ps_before = "none"
    /\ ps_returned = "none"

\* every template binds its variables
RenderIdle == rn_unbound = {}

LateIdle ==
    /\ RenderIdle
    /\ BatchIdle
    /\ ResponseIdle
    /\ ExecuteIdle
    /\ MemoryIdle
    /\ StreamIdle
    /\ MergeIdle
    /\ PromptIdle

\* all of the last components but one are idle
LateIdleButRender ==
    /\ BatchIdle
    /\ ResponseIdle
    /\ ExecuteIdle
    /\ MemoryIdle
    /\ StreamIdle
    /\ MergeIdle
    /\ PromptIdle

LateIdleButBatch ==
    /\ RenderIdle
    /\ ResponseIdle
    /\ ExecuteIdle
    /\ MemoryIdle
    /\ StreamIdle
    /\ MergeIdle
    /\ PromptIdle

LateIdleButResponse ==
    /\ RenderIdle
    /\ BatchIdle
    /\ ExecuteIdle
    /\ MemoryIdle
    /\ StreamIdle
    /\ MergeIdle
    /\ PromptIdle

LateIdleButExecute ==
    /\ RenderIdle
    /\ BatchIdle
    /\ ResponseIdle
    /\ MemoryIdle
    /\ StreamIdle
    /\ MergeIdle
    /\ PromptIdle

LateIdleButMemory ==
    /\ RenderIdle
    /\ BatchIdle
    /\ ResponseIdle
    /\ ExecuteIdle
    /\ StreamIdle
    /\ MergeIdle
    /\ PromptIdle

LateIdleButStream ==
    /\ RenderIdle
    /\ BatchIdle
    /\ ResponseIdle
    /\ ExecuteIdle
    /\ MemoryIdle
    /\ MergeIdle
    /\ PromptIdle

LateIdleButMerge ==
    /\ RenderIdle
    /\ BatchIdle
    /\ ResponseIdle
    /\ ExecuteIdle
    /\ MemoryIdle
    /\ StreamIdle
    /\ PromptIdle

LateIdleButPrompt ==
    /\ RenderIdle
    /\ BatchIdle
    /\ ResponseIdle
    /\ ExecuteIdle
    /\ MemoryIdle
    /\ StreamIdle
    /\ MergeIdle

MoreIdle ==
    /\ CostIdle
    /\ FormatIdle
    /\ LifeIdle
    /\ SaveIdle
    /\ LateIdle

EnvIdle ==
    /\ em_env = "none"
    /\ em_messages = <<>>
    /\ em_i = 0
    /\ em_results = <<>>
    /\ em_execs = {}
    /\ em_timedout = {}
    /\ em_output = NoOutput
    /\ em_submission = <<>>
    /\ em_state = "idle"

\* render_template: StrictUndefined lets a template render only when all it references is bound
Renders(template) == template \notin rn_unbound

\* the components of the sections before the last ones are idle
EarlyIdle ==
    /\ AgentIdle
    /\ n_calls = 0
    /\ cost = 0
    /\ cost_per_call = 1
    /\ ModelIdle
    /\ EnvIdle
    /\ IaIdle
    /\ RetryIdle
    /\ CostIdle
    /\ FormatIdle
    /\ LifeIdle
    /\ SaveIdle

\* run(): the system and the instance message
Run ==
    /\ pc = "init"
    /\ Renders("system_template")
    /\ Renders("instance_template")
    /\ messages' = AddMessage(AddMessage(<<>>, "system", SystemPrompt), "user", InstancePrompt)
    /\ pc' = "loop"
    /\ UNCHANGED <<modelVars, envVars, extVars, response, n_calls, cost, n_queries, executed, config,
                   out_file, traj_file, result, exc>>

\* query(): a limit is reached, LimitsExceeded
QueryLimits ==
    /\ pc = "loop"
    /\ LimitsReached
    /\ Raise("LimitsExceeded", <<>>)
    /\ UNCHANGED <<modelVars, envVars, extVars, messages, response, n_calls, cost, n_queries,
                   executed, config, out_file, result>>

\* a query whose call the model does not count
QueryOkUncounted ==
    /\ pc = "loop"
    /\ ~LimitsReached
    /\ n_queries < MaxSteps
    /\ \E content \in ModelOutputs :
          /\ response' = content
          /\ messages' = AddMessage(messages, "assistant", content)
    /\ n_queries' = n_queries + 1
    /\ n_calls' = n_calls
    /\ cost' = cost + cost_per_call
    /\ exc' = NoException
    /\ pc' = "observe"
    /\ UNCHANGED <<modelVars, envVars, extVars, executed, config, out_file, traj_file, result>>

\* query(): the model answers and the answer is logged
QueryOk ==
    /\ pc = "loop"
    /\ ~LimitsReached
    /\ n_queries < MaxSteps
    /\ \E content \in ModelOutputs :
          /\ response' = content
          /\ messages' = AddMessage(messages, "assistant", content)
    /\ n_queries' = n_queries + 1
    /\ n_calls' = n_calls + 1
    /\ cost' = cost + cost_per_call
    /\ exc' = NoException
    /\ pc' = "observe"
    /\ UNCHANGED <<modelVars, envVars, extVars, executed, config, out_file, traj_file, result>>

\* query(): model.query raises (the provider failed)
QueryFail ==
    /\ pc = "loop"
    /\ ~LimitsReached
    /\ n_queries < MaxSteps
    /\ n_queries' = n_queries + 1
    /\ Raise("RuntimeError", <<"provider_error">>)
    /\ UNCHANGED <<modelVars, envVars, extVars, messages, response, n_calls, cost, executed,
                   config, out_file, result>>

\* get_observation(): parse_action finds no action or several, FormatError
ParseFail ==
    /\ pc = "observe"
    /\ Len(ParseAction(response)) # 1
    /\ Renders("format_error_template")
    /\ Raise("FormatError", <<"format_error", NatStr(Len(FindAll(response)))>>)
    /\ UNCHANGED <<modelVars, envVars, extVars, messages, response, n_calls, cost, n_queries,
                   executed, config, out_file, result>>

Command(content) == Strip(ParseAction(content)[1])

\* env.execute is called with the action of the turn at the end of the log
Execute(content, outcome, output) ==
    Append(executed, [turn |-> Len(messages), command |-> Command(content),
                      outcome |-> outcome, output |-> output])

\* action_observation_template rendered for an output
Observation(output) == <<"returncode", NatStr(output.returncode)>> \o output.output

\* a step that executes the command and logs no observation
ExecOkSilent ==
    /\ pc = "observe"
    /\ Len(FindAll(response)) = 1
    /\ \E output \in EnvOutputs :
          /\ ~HasFinished(output)
          /\ executed' = Append(executed, [turn |-> Len(messages), command |-> Strip(FindAll(response)[1]),
                                           outcome |-> "ok", output |-> output.output])
    /\ messages' = messages
    /\ traj_file' = SaveTraj(traj_file, messages')
    /\ out_file' = Save(out_file, messages', EmptyInfo)
    /\ pc' = "loop"
    /\ UNCHANGED <<modelVars, envVars, extVars, response, n_calls, cost, n_queries, config, result, exc>>

\* get_observation(): the command runs and its output is logged; run() saves
ExecOk ==
    /\ pc = "observe"
    /\ Len(ParseAction(response)) = 1
    /\ Renders("action_observation_template")
    /\ \E output \in EnvOutputs :
          /\ ~HasFinished(output)
          /\ executed' = Execute(response, "ok", output.output)
          /\ messages' = AddMessage(messages, "user", Observation(output))
    /\ traj_file' = SaveTraj(traj_file, messages')
    /\ out_file' = Save(out_file, messages', EmptyInfo)
    /\ pc' = "loop"
    /\ UNCHANGED <<modelVars, envVars, extVars, response, n_calls, cost, n_queries, config, result, exc>>

\* get_observation(): has_finished finds the sentinel, Submitted
ExecSubmit ==
    /\ pc = "observe"
    /\ Len(ParseAction(response)) = 1
    /\ \E output \in EnvOutputs :
          /\ HasFinished(output)
          /\ executed' = Execute(response, "submitted", output.output)
          /\ Raise("Submitted", Submission(output))
    /\ UNCHANGED <<modelVars, envVars, extVars, messages, response, n_calls, cost, n_queries,
                   config, out_file, result>>

\* a timeout whose message leaves out the output captured so far
ExecTimeoutNoOutput ==
    /\ pc = "observe"
    /\ Len(FindAll(response)) = 1
    /\ \E partial \in PartialOutputs :
          /\ executed' = Append(executed, [turn |-> Len(messages), command |-> Strip(FindAll(response)[1]),
                                           outcome |-> "timeout", output |-> partial])
          /\ exc' = [e |-> "ExecutionTimeoutError", text |-> <<"timed_out">>]
    /\ traj_file' = SaveTraj(traj_file, messages)
    /\ pc' = "except"
    /\ UNCHANGED <<modelVars, envVars, extVars, messages, response, n_calls, cost, n_queries,
                   config, out_file, result>>

\* get_observation(): the command times out, ExecutionTimeoutError
ExecTimeout ==
    /\ pc = "observe"
    /\ Len(ParseAction(response)) = 1
    /\ Renders("timeout_template")
    /\ \E partial \in PartialOutputs :
          /\ executed' = Execute(response, "timeout", partial)
          /\ Raise("ExecutionTimeoutError", <<"timed_out">> \o partial)
    /\ UNCHANGED <<modelVars, envVars, extVars, messages, response, n_calls, cost, n_queries,
                   config, out_file, result>>

\* get_observation(): env.execute raises anything else
ExecCrash ==
    /\ pc = "observe"
    /\ Len(ParseAction(response)) = 1
    /\ executed' = Execute(response, "crash", <<>>)
    /\ Raise("OSError", <<"os_error">>)
    /\ UNCHANGED <<modelVars, envVars, extVars, messages, response, n_calls, cost, n_queries,
                   config, out_file, result>>

\* run(), except: the exception's text is logged; finally: the trajectory is saved
Logged == AddMessage(messages, ExceptionRole(exc.e), exc.text)

\* a handler that continues before the trajectory is saved
ExceptContinueNoSave ==
    /\ pc = "except"
    /\ exc.e \in {"FormatError", "ExecutionTimeoutError"}
    /\ messages' = AddMessage(messages, "user", exc.text)
    /\ pc' = "loop"
    /\ UNCHANGED <<modelVars, envVars, extVars, response, n_calls, cost, n_queries, executed, config,
                   out_file, traj_file, result, exc>>

\* a handler that continues without logging the exception
ExceptContinueUnlogged ==
    /\ pc = "except"
    /\ exc.e \in {"FormatError", "ExecutionTimeoutError"}
    /\ messages' = messages
    /\ out_file' = Save(out_file, messages', EmptyInfo)
    /\ pc' = "loop"
    /\ UNCHANGED <<modelVars, envVars, extVars, response, n_calls, cost, n_queries, executed, config,
                   traj_file, result, exc>>

\* run(): a NonTerminatingException, the loop continues
ExceptContinue ==
    /\ pc = "except"
    /\ exc.e \in NonTerminating
    /\ messages' = Logged
    /\ out_file' = Save(out_file, messages', EmptyInfo)
    /\ pc' = "loop"
    /\ UNCHANGED <<modelVars, envVars, extVars, response, n_calls, cost, n_queries, executed,
                   config, traj_file, result, exc>>

\* run(): a TerminatingException, info is returned
ExceptReturn ==
    /\ pc = "except"
    /\ exc.e \in Terminating
    /\ messages' = Logged
    /\ result' = [kind |-> "returned", exit_status |-> exc.e, submission |-> exc.text]
    /\ out_file' = Save(out_file, messages', ExitInfo(exc.e, exc.text))
    /\ pc' = "done"
    /\ UNCHANGED <<modelVars, envVars, extVars, response, n_calls, cost, n_queries, executed,
                   config, traj_file, exc>>

\* run(): any other exception is raised again
ExceptRaise ==
    /\ pc = "except"
    /\ exc.e \notin NonTerminating \cup Terminating
    /\ messages' = Logged
    /\ result' = [kind |-> "raised", exit_status |-> exc.e, submission |-> exc.text]
    /\ out_file' = Save(out_file, messages', ExitInfo(exc.e, exc.text))
    /\ pc' = "done"
    /\ UNCHANGED <<modelVars, envVars, extVars, response, n_calls, cost, n_queries, executed,
                   config, traj_file, exc>>

Init ==
    /\ pc = "init"
    /\ messages = <<>>
    /\ response = <<>>
    /\ n_calls = 0
    /\ cost = 0
    /\ n_queries = 0
    /\ executed = <<>>
    /\ step_limit \in 0..MaxStepLimit
    /\ cost_limit \in 0..MaxCostLimit
    /\ cost_per_call \in 1..MaxCallCost
    /\ output_path \in BOOLEAN
    /\ traj_path \in BOOLEAN
    /\ out_file = NoFile
    /\ traj_file = NoFile
    /\ result = [kind |-> "none", exit_status |-> Null, submission |-> <<>>]
    /\ exc = NoException
    /\ ModelIdle
    /\ EnvIdle
    /\ IaIdle
    /\ RetryIdle
    /\ MoreIdle

Next ==
    \/ Run
    \/ QueryLimits
    \/ QueryOk
    \/ QueryFail
    \/ ParseFail
    \/ ExecOk
    \/ ExecSubmit
    \/ ExecTimeout
    \/ ExecCrash
    \/ ExceptContinue
    \/ ExceptReturn
    \/ ExceptRaise

Spec == Init /\ [][Next]_vars

\* runs under a step limit alone; run() is sequential code whose calls all return or raise
InitLimited ==
    /\ Init
    /\ step_limit > 0
    /\ cost_limit = 0
    /\ cost_per_call = 1
    /\ ~traj_path

SpecLimited == InitLimited /\ [][Next]_vars /\ WF_vars(Next)

\* ------------------------------------------------------------ model clients
MaxContentLen == 4   \* a response text has at most this many tokens
MaxToolCalls == 2    \* a response has at most this many tool calls

Contents == SeqsUpTo({"open", "close", "cmd"}, MaxContentLen)

\* a tool call: the tool's name and what its arguments string holds
\* ("json_number": valid JSON that is not an object, such as 5)
ToolCalls == [name : {"bash", "python"},
              arguments : {"json_command", "json_no_command", "json_number", "not_json"}]

ToolCallLists == SeqsUpTo(ToolCalls, MaxToolCalls)

TextClients == {"DeterministicModel", "PortkeyModel", "OpenRouterModel"}
ToolClients == {"LitellmResponseToolcallModel", "LitellmToolcallModel"}

Returned(actions) == [kind |-> "returned", exc |-> "none", has_actions |-> TRUE, actions |-> actions]
ReturnedBare == [kind |-> "returned", exc |-> "none", has_actions |-> FALSE, actions |-> <<>>]
Raised(e) == [kind |-> "raised", exc |-> e, has_actions |-> FALSE, actions |-> <<>>]

\* the stripped groups of the matches of the action regex
StrippedActions(content) == [k \in 1..Len(FindAll(content)) |-> Strip(FindAll(content)[k])]

TextActions(content) ==
    [k \in 1..Len(FindAll(content)) |-> [command |-> StrippedActions(content)[k], tool_call_id |-> 0]]

\* models/utils/actions_text.py, parse_regex_actions
ParseRegexActions(content) ==
    IF Len(StrippedActions(content)) # 1 THEN Raised("FormatError")
    ELSE Returned(TextActions(content))

\* DeterministicModel.parse_actions
DeterministicParseActions(content) ==
    IF Len(StrippedActions(content)) # 1 THEN Raised("FormatError")
    ELSE Returned(TextActions(content))

\* the exception the first faulty tool call raises in LitellmToolcallModel.parse_actions
RECURSIVE ToolcallFault(_, _)
ToolcallFault(tool_calls, i) ==
    IF i > Len(tool_calls) THEN "none"
    ELSE IF tool_calls[i].name # "bash" THEN "FormatError"
    ELSE IF tool_calls[i].arguments = "not_json" THEN "JSONDecodeError"
    ELSE IF tool_calls[i].arguments = "json_no_command" THEN "KeyError"
    ELSE IF tool_calls[i].arguments = "json_number" THEN "TypeError"
    ELSE ToolcallFault(tool_calls, i + 1)

ToolActions(tool_calls) ==
    [k \in 1..Len(tool_calls) |-> [command |-> <<"cmd">>, tool_call_id |-> k]]

\* LitellmToolcallModel.parse_actions
LitellmToolcallParseActions(tool_calls) ==
    IF ToolcallFault(tool_calls, 1) # "none" THEN Raised(ToolcallFault(tool_calls, 1))
    ELSE Returned(ToolActions(tool_calls))

\* the exception the first faulty tool call raises in parse_toolcall_actions_response:
\* the test '"command" not in args' fails on a number with a TypeError
RECURSIVE ResponseFault(_, _)
ResponseFault(tool_calls, i) ==
    IF i > Len(tool_calls) THEN "none"
    ELSE IF tool_calls[i].arguments = "json_number" THEN "TypeError"
    ELSE IF tool_calls[i].arguments # "json_command" \/ tool_calls[i].name # "bash"
         THEN "FormatError"
    ELSE ResponseFault(tool_calls, i + 1)

\* models/utils/actions_toolcall_response.py, parse_toolcall_actions_response
ParseToolcallActionsResponse(tool_calls) ==
    IF tool_calls = <<>> THEN Raised("FormatError")
    ELSE IF ResponseFault(tool_calls, 1) # "none" THEN Raised(ResponseFault(tool_calls, 1))
    ELSE Returned(ToolActions(tool_calls))

\* DeterministicModel.query: the call is counted, then the actions are parsed
DeterministicQuery ==
    /\ mq_client = "DeterministicModel"
    /\ mq_out.kind = "none"
    /\ n_calls' = n_calls + 1
    /\ cost' = cost + cost_per_call
    /\ mq_out' = DeterministicParseActions(mq_response.content)
    /\ UNCHANGED <<pc, messages, response, n_queries, executed, config, out_file, traj_file,
                   result, exc, mq_client, mq_response, envVars, extVars>>

\* PortkeyModel.query: the content and the cost are returned
PortkeyQuery ==
    /\ mq_client = "PortkeyModel"
    /\ mq_out.kind = "none"
    /\ n_calls' = n_calls + 1
    /\ cost' = cost + cost_per_call
    /\ mq_out' = ReturnedBare
    /\ UNCHANGED <<pc, messages, response, n_queries, executed, config, out_file, traj_file,
                   result, exc, mq_client, mq_response, envVars, extVars>>

\* OpenRouterModel.query: extra.actions comes from parse_regex_actions
OpenRouterQuery ==
    /\ mq_client = "OpenRouterModel"
    /\ mq_out.kind = "none"
    /\ mq_out' = ParseRegexActions(mq_response.content)
    /\ UNCHANGED <<agentVars, mq_client, mq_response, envVars, extVars>>

\* LitellmResponseToolcallModel.query: extra.actions comes from
\* parse_toolcall_actions_response
LitellmResponseToolcallQuery ==
    /\ mq_client = "LitellmResponseToolcallModel"
    /\ mq_out.kind = "none"
    /\ mq_out' = ParseToolcallActionsResponse(mq_response.tool_calls)
    /\ UNCHANGED <<agentVars, mq_client, mq_response, envVars, extVars>>

\* LitellmToolcallModel: the actions of a response, from its parse_actions
LitellmToolcallQuery ==
    /\ mq_client = "LitellmToolcallModel"
    /\ mq_out.kind = "none"
    /\ mq_out' = LitellmToolcallParseActions(mq_response.tool_calls)
    /\ UNCHANGED <<agentVars, mq_client, mq_response, envVars, extVars>>

InitModel ==
    /\ AgentIdle
    /\ EnvIdle
    /\ n_calls = 0
    /\ cost = 0
    /\ cost_per_call = 1
    /\ mq_client \in TextClients \cup ToolClients
    /\ mq_response \in
          IF mq_client \in TextClients
          THEN [content : Contents, tool_calls : {<<>>}]
          ELSE [content : {<<>>}, tool_calls : ToolCallLists]
    /\ mq_out = [kind |-> "none", exc |-> "none", has_actions |-> FALSE, actions |-> <<>>]
    /\ IaIdle
    /\ RetryIdle
    /\ MoreIdle

NextModel ==
    \/ DeterministicQuery
    \/ PortkeyQuery
    \/ OpenRouterQuery
    \/ LitellmResponseToolcallQuery
    \/ LitellmToolcallQuery

SpecModel == InitModel /\ [][NextModel]_vars

\* ------------------------------------------------------------ environments
MaxMessages == 3     \* execute_messages gets at most this many messages

FirstLineEnvs == {"LocalEnvironment", "SwerexDockerEnvironment", "ContreeEnvironment"}
LastLineEnvs == {"DockerEnvironment", "SingularityEnvironment"}

\* _check_finished of the back-ends: the sentinel on the first line, or on the last;
\* the contree back-end also wants returncode 0
CheckFinished(env, output) ==
    IF env \in FirstLineEnvs
    THEN LET lines == LStripLines(output.output)
         IN /\ lines # <<>>
            /\ StripLine(lines[1]) = SENTINEL
            /\ env = "ContreeEnvironment" => output.returncode = 0
    ELSE LET lines == RStripLines(output.output)
         IN lines # <<>> /\ StripLine(Last(lines)) = SENTINEL

\* _check_finished: the payload of Submitted, lines[1:] or lines[:-1]
CheckFinishedSubmission(env, output) ==
    IF env \in FirstLineEnvs
    THEN Tail(LStripLines(output.output))
    ELSE SubSeq(RStripLines(output.output), 1, Len(RStripLines(output.output)) - 1)

\* execute_messages on its way through the messages
EmAt(has_action) ==
    /\ em_state = "running"
    /\ em_i <= Len(em_messages)
    /\ em_messages[em_i] = has_action

\* the back-ends that have an execute_messages of their own
MessageEnvs == (FirstLineEnvs \cup LastLineEnvs) \ {"ContreeEnvironment"}

\* execute_messages: a message without extra.action is passed over
EmSkip ==
    /\ EmAt(FALSE)
    /\ em_i' = em_i + 1
    /\ UNCHANGED <<agentVars, modelVars, extVars, em_env, em_messages, em_results, em_execs,
                   em_timedout, em_output, em_submission, em_state>>

\* execute_messages: the action runs and its observation is collected
EmExecOk ==
    /\ EmAt(TRUE)
    /\ em_env \in MessageEnvs
    /\ \E output \in EnvOutputs :
          /\ ~CheckFinished(em_env, output)
          /\ em_output' = output
          /\ em_results' = Append(em_results, [role |-> "user", content |-> Observation(output),
                                               msg |-> em_i])
    /\ em_execs' = em_execs \cup {em_i}
    /\ em_i' = em_i + 1
    /\ UNCHANGED <<agentVars, modelVars, extVars, em_env, em_messages, em_timedout, em_submission, em_state>>

\* execute_messages: _check_finished raises Submitted
EmExecSubmit ==
    /\ EmAt(TRUE)
    /\ em_env \in MessageEnvs
    /\ \E output \in EnvOutputs :
          /\ CheckFinished(em_env, output)
          /\ em_output' = output
          /\ em_submission' = CheckFinishedSubmission(em_env, output)
    /\ em_execs' = em_execs \cup {em_i}
    /\ em_state' = "Submitted"
    /\ UNCHANGED <<agentVars, modelVars, extVars, em_env, em_messages, em_i, em_results, em_timedout>>

\* execute_messages of the local and docker back-ends: the action times out, a timeout
\* observation is collected and the loop continues
EmTimeoutContinue ==
    /\ EmAt(TRUE)
    /\ em_env \in MessageEnvs \ {"SingularityEnvironment"}
    /\ \E partial \in PartialOutputs :
          em_results' = Append(em_results, [role |-> "user", content |-> <<"timed_out">> \o partial,
                                            msg |-> em_i])
    /\ em_execs' = em_execs \cup {em_i}
    /\ em_timedout' = em_timedout \cup {em_i}
    /\ em_i' = em_i + 1
    /\ UNCHANGED <<agentVars, modelVars, extVars, em_env, em_messages, em_output, em_submission, em_state>>

\* execute_messages of the singularity back-end: the action times out,
\* ExecutionTimeoutError
EmTimeoutRaise ==
    /\ EmAt(TRUE)
    /\ em_env = "SingularityEnvironment"
    /\ em_execs' = em_execs \cup {em_i}
    /\ em_timedout' = em_timedout \cup {em_i}
    /\ em_state' = "ExecutionTimeoutError"
    /\ UNCHANGED <<agentVars, modelVars, extVars, em_env, em_messages, em_i, em_results, em_output,
                   em_submission>>

\* execute_messages: the loop is over, the observations are returned
EmReturn ==
    /\ em_state = "running"
    /\ em_i > Len(em_messages)
    /\ em_state' = "returned"
    /\ UNCHANGED <<agentVars, modelVars, extVars, em_env, em_messages, em_i, em_results, em_execs,
                   em_timedout, em_output, em_submission>>

\* ContreeEnvironment.execute, called for each action of the turn: the output is
\* returned unless _check_finished raises Submitted
ContreeExecute ==
    /\ EmAt(TRUE)
    /\ em_env = "ContreeEnvironment"
    /\ \E output \in EnvOutputs :
          /\ em_output' = output
          /\ IF CheckFinished(em_env, output)
             THEN /\ em_submission' = CheckFinishedSubmission(em_env, output)
                  /\ em_state' = "Submitted"
                  /\ UNCHANGED <<em_i, em_results>>
             ELSE /\ em_results' = Append(em_results, [role |-> "user", content |-> Observation(output),
                                                       msg |-> em_i])
                  /\ em_i' = em_i + 1
                  /\ UNCHANGED <<em_submission, em_state>>
    /\ em_execs' = em_execs \cup {em_i}
    /\ UNCHANGED <<agentVars, modelVars, extVars, em_env, em_messages, em_timedout>>

InitEnv ==
    /\ AgentIdle
    /\ ModelIdle
    /\ n_calls = 0
    /\ cost = 0
    /\ cost_per_call = 1
    /\ em_env \in FirstLineEnvs \cup LastLineEnvs
    /\ em_messages \in SeqsUpTo(BOOLEAN, MaxMessages)
    /\ em_i = 1
    /\ em_results = <<>>
    /\ em_execs = {}
    /\ em_timedout = {}
    /\ em_output = NoOutput
    /\ em_submission = <<>>
    /\ em_state = "running"
    /\ IaIdle
    /\ RetryIdle
    /\ MoreIdle

NextEnv ==
    \/ EmSkip
    \/ EmExecOk
    \/ EmExecSubmit
    \/ EmTimeoutContinue
    \/ EmTimeoutRaise
    \/ EmReturn
    \/ ContreeExecute

SpecEnv == InitEnv /\ [][NextEnv]_vars

\* -------------------------------------------------------- InteractiveAgent
MaxIaSteps == 2      \* cap on the steps of one interactive run

ModeCommands == {"/u", "/c", "/y"}

\* _MODE_COMMANDS_MAPPING
ModeOf(input) == CASE input = "/u" -> "human" [] input = "/c" -> "confirm" [] OTHER -> "yolo"

\* what the user may type at a prompt: nothing, white space, a mode command, a text
\* ("/h" only prints the help and prompts again)
UserInputs == {"", " ", "/u", "/c", "/y", "text"}

\* str.strip() of an input
IaStripped(input) == IF input = " " THEN "" ELSE input

\* _prompt_and_handle_slash_commands returns the input, unless it is the command of
\* the mode the agent is in already: then it prompts again
PromptReturns(mode, input) == input \notin ModeCommands \/ ModeOf(input) # mode

\* a routine for which every mode command switches to yolo
PromptModeYolo(mode, input) == IF input \in ModeCommands THEN "yolo" ELSE mode

\* _prompt_and_handle_slash_commands: the mode after the input
PromptMode(mode, input) == IF input \in ModeCommands THEN ModeOf(input) ELSE mode

\* the actions config.whitelist_actions matches
WhitelistActions == {"ls"}

\* the action lists of the model's messages
IaModelActions == { <<"ls", "rm">> }

\* the step limits the user may enter when query() asks for new limits
NewStepLimits == {0, 1}

\* _should_ask_confirmation
ShouldAskConfirmation(mode, action) == mode = "confirm" /\ action \notin WhitelistActions

\* an answer that lets every action run
IaAcceptedAny(input) == TRUE

\* _ask_confirmation_or_interrupt: case "" | "/y"
IaAccepted(input) == IaStripped(input) \in {"", "/y"}

\* _ask_confirmation_or_interrupt: the UserInterruption of a rejection
Rejection(input) ==
    IF IaStripped(input) = "/u"
    THEN [e |-> "UserInterruption", trigger |-> "confirm", kind |-> "human_switch", content |-> <<>>]
    ELSE [e |-> "UserInterruption", trigger |-> "confirm", kind |-> "rejection",
          content |-> <<IaStripped(input)>>]

\* a query that never takes the user's command
HumanCommandNever(mode, input) == FALSE

\* InteractiveAgent.query: in human mode the typed command becomes the assistant turn,
\* unless it is /y or /c
HumanCommand(mode, input) == mode = "human" /\ input \notin {"/y", "/c"}

\* DefaultAgent.query, the step limit
IaLimitsReached(limit, n) == 0 < limit /\ limit <= n

\* a confirmation of the exit that never takes a new task
CheckForNewTaskNever(confirm_exit, task) ==
    [e |-> "Submitted", trigger |-> "Submitted", kind |-> "exit", content |-> <<"submission">>]

\* _check_for_new_task_or_submit: the exception it raises
CheckForNewTaskOrSubmit(confirm_exit, task) ==
    IF confirm_exit /\ IaStripped(task) # ""
    THEN [e |-> "UserInterruption", trigger |-> "Submitted", kind |-> "new_task",
          content |-> <<IaStripped(task)>>]
    ELSE [e |-> "Submitted", trigger |-> "Submitted", kind |-> "exit", content |-> <<"submission">>]

\* an interruption message that is the input as typed
InterruptionMessageRaw(input) == IaStripped(input)

\* InteractiveAgent.step, except KeyboardInterrupt: the message of the interruption
InterruptionMessage(input) ==
    IF IaStripped(input) = "" \/ IaStripped(input) \in ModeCommands
    THEN "Temporary interruption caught."
    ELSE IaStripped(input)

\* model.format_observation_messages: one user message for each output
IaObservations(outputs) ==
    [j \in 1..Len(outputs) |-> [role |-> "user", kind |-> "observation", content |-> <<outputs[j]>>]]

\* the exceptions run() treats as recoverable and as final
IaNonTerminating == {"UserInterruption"}
IaTerminating == {"Submitted", "LimitsExceeded"}

\* query() in human mode: the assistant turn is made of the command the user typed
IaQueryHuman ==
    /\ ia_pc = "step"
    /\ ia_steps < MaxIaSteps
    /\ \E input \in UserInputs :
          /\ ia_mode = "human" /\ PromptReturns(ia_mode, input)
          /\ HumanCommand(ia_mode, input)
          /\ ia_input' = input
          /\ ia_messages' = Append(ia_messages, [role |-> "assistant", kind |-> "human",
                                                 content |-> <<input>>])
          /\ ia_actions' = <<input>>
    /\ ia_k' = 1
    /\ ia_outputs' = <<>>
    /\ ia_steps' = ia_steps + 1
    /\ ia_pc' = "actions"
    /\ UNCHANGED <<agentVars, modelVars, envVars, retryVars, moreVars, ia_mode, ia_confirm_exit, ia_step_limit,
                   ia_executed, ia_answers, ia_n_calls, ia_exc, ia_result>>

\* query(): the model is asked (in human mode after /y or /c; after new limits if
\* the limits were reached) and its message is added
IaQueryModel ==
    /\ ia_pc = "step"
    /\ ia_steps < MaxIaSteps
    /\ \E input \in (IF ia_mode = "human" THEN UserInputs ELSE {ia_input}) :
       \E new_limit \in NewStepLimits, acts \in IaModelActions :
          LET limit == IF IaLimitsReached(ia_step_limit, ia_n_calls) THEN new_limit
                       ELSE ia_step_limit
          IN /\ ia_mode = "human" => PromptReturns(ia_mode, input)
             /\ ~HumanCommand(ia_mode, input)
             /\ ~IaLimitsReached(limit, ia_n_calls)
             /\ ia_input' = input
             /\ ia_mode' = IF ia_mode = "human" THEN PromptMode(ia_mode, input) ELSE ia_mode
             /\ ia_step_limit' = limit
             /\ ia_messages' = Append(ia_messages, [role |-> "assistant", kind |-> "lm",
                                                    content |-> acts])
             /\ ia_actions' = acts
    /\ ia_n_calls' = ia_n_calls + 1
    /\ ia_k' = 1
    /\ ia_outputs' = <<>>
    /\ ia_steps' = ia_steps + 1
    /\ ia_pc' = "actions"
    /\ UNCHANGED <<agentVars, modelVars, envVars, retryVars, moreVars, ia_confirm_exit, ia_executed, ia_answers,
                   ia_exc, ia_result>>

\* query(): the limits are reached and so are the new ones, LimitsExceeded
IaQueryLimits ==
    /\ ia_pc = "step"
    /\ ia_steps < MaxIaSteps
    /\ \E input \in (IF ia_mode = "human" THEN UserInputs ELSE {ia_input}) :
       \E new_limit \in NewStepLimits :
          /\ ia_mode = "human" => PromptReturns(ia_mode, input)
          /\ ~HumanCommand(ia_mode, input)
          /\ IaLimitsReached(ia_step_limit, ia_n_calls)
          /\ IaLimitsReached(new_limit, ia_n_calls)
          /\ ia_input' = input
          /\ ia_mode' = IF ia_mode = "human" THEN PromptMode(ia_mode, input) ELSE ia_mode
          /\ ia_step_limit' = new_limit
    /\ ia_exc' = [e |-> "LimitsExceeded", trigger |-> "limits", kind |-> "exit", content |-> <<>>]
    /\ ia_steps' = ia_steps + 1
    /\ ia_pc' = "except"
    /\ UNCHANGED <<agentVars, modelVars, envVars, retryVars, moreVars, ia_confirm_exit, ia_messages, ia_actions, ia_k,
                   ia_outputs, ia_executed, ia_answers, ia_n_calls, ia_result>>

\* execute_actions() at an action of the message
IaAtAction ==
    /\ ia_pc = "actions"
    /\ ia_k <= Len(ia_actions)

\* the answers the confirmation prompt of the action may return (none if it is not asked)
IaConfirmInputs ==
    IF ShouldAskConfirmation(ia_mode, ia_actions[ia_k])
    THEN {input \in UserInputs : PromptReturns(ia_mode, input)}
    ELSE {"unasked"}

\* the confirmation prompt of the action, answered with input
IaAsked(input) ==
    /\ ia_answers' = IF input = "unasked" THEN ia_answers
                     ELSE ia_answers \cup {[turn |-> Len(ia_messages), k |-> ia_k, input |-> input]}
    /\ ia_executed' = IF input = "unasked" \/ IaAccepted(input)
                      THEN Append(ia_executed, [turn |-> Len(ia_messages), k |-> ia_k,
                                                command |-> ia_actions[ia_k], mode |-> ia_mode])
                      ELSE ia_executed

\* execute_actions(): the action is confirmed if need be, runs and gives its output
IaExecute ==
    /\ IaAtAction
    /\ \E input \in IaConfirmInputs :
          /\ input = "unasked" \/ IaAccepted(input)
          /\ IaAsked(input)
          /\ ia_input' = IF input = "unasked" THEN ia_input ELSE input
          /\ ia_mode' = IF input = "unasked" THEN ia_mode ELSE PromptMode(ia_mode, input)
    /\ ia_outputs' = Append(ia_outputs, ia_actions[ia_k])
    /\ ia_k' = ia_k + 1
    /\ UNCHANGED <<agentVars, modelVars, envVars, retryVars, moreVars, ia_pc, ia_confirm_exit, ia_step_limit,
                   ia_messages, ia_actions, ia_n_calls, ia_steps, ia_exc, ia_result>>

\* execute_actions(): the action runs and env.execute raises Submitted; the user is
\* asked for a new task if confirm_exit is on; the outputs so far are added
IaSubmit ==
    /\ IaAtAction
    /\ \E input \in IaConfirmInputs :
       \E task \in (IF ia_confirm_exit THEN UserInputs ELSE {"unasked"}) :
          LET mode == IF input = "unasked" THEN ia_mode ELSE PromptMode(ia_mode, input)
          IN /\ input = "unasked" \/ IaAccepted(input)
             /\ ia_confirm_exit => PromptReturns(mode, task)
             /\ IaAsked(input)
             /\ ia_exc' = CheckForNewTaskOrSubmit(ia_confirm_exit, task)
             /\ ia_input' = IF ia_confirm_exit THEN task
                            ELSE IF input = "unasked" THEN ia_input ELSE input
             /\ ia_mode' = IF ia_confirm_exit THEN PromptMode(mode, task) ELSE mode
    /\ ia_messages' = ia_messages \o IaObservations(ia_outputs)
    /\ ia_pc' = "except"
    /\ UNCHANGED <<agentVars, modelVars, envVars, retryVars, moreVars, ia_confirm_exit, ia_step_limit, ia_actions,
                   ia_k, ia_outputs, ia_n_calls, ia_steps, ia_result>>

\* execute_actions(): the user rejects the action, UserInterruption; the outputs so
\* far are added
IaReject ==
    /\ IaAtAction
    /\ \E input \in IaConfirmInputs :
          /\ input # "unasked" /\ ~IaAccepted(input)
          /\ IaAsked(input)
          /\ ia_exc' = Rejection(input)
          /\ ia_input' = input
          /\ ia_mode' = PromptMode(ia_mode, input)
    /\ ia_messages' = ia_messages \o IaObservations(ia_outputs)
    /\ ia_pc' = "except"
    /\ UNCHANGED <<agentVars, modelVars, envVars, retryVars, moreVars, ia_confirm_exit, ia_step_limit, ia_actions,
                   ia_k, ia_outputs, ia_n_calls, ia_steps, ia_result>>

\* execute_actions(): all actions ran, their observations are added
IaObserve ==
    /\ ia_pc = "actions"
    /\ ia_k > Len(ia_actions)
    /\ ia_messages' = ia_messages \o IaObservations(ia_outputs)
    /\ ia_pc' = "step"
    /\ UNCHANGED <<agentVars, modelVars, envVars, retryVars, moreVars, ia_mode, ia_confirm_exit, ia_step_limit,
                   ia_actions, ia_k, ia_outputs, ia_executed, ia_answers, ia_input, ia_n_calls,
                   ia_steps, ia_exc, ia_result>>

\* step(): a KeyboardInterrupt during the step; execute_actions() adds the outputs it
\* has, the user is prompted, UserInterruption
IaKeyboardInterrupt ==
    /\ ia_pc \in {"step", "actions"}
    /\ ia_pc = "step" => ia_steps < MaxIaSteps
    /\ \E input \in UserInputs :
          /\ PromptReturns(ia_mode, input)
          /\ ia_input' = input
          /\ ia_mode' = PromptMode(ia_mode, input)
          /\ ia_exc' = [e |-> "UserInterruption", trigger |-> "KeyboardInterrupt",
                        kind |-> "interruption", content |-> <<InterruptionMessage(input)>>]
    /\ ia_messages' = IF ia_pc = "actions" THEN ia_messages \o IaObservations(ia_outputs)
                      ELSE ia_messages
    /\ ia_steps' = IF ia_pc = "step" THEN ia_steps + 1 ELSE ia_steps
    /\ ia_pc' = "except"
    /\ UNCHANGED <<agentVars, modelVars, envVars, retryVars, moreVars, ia_confirm_exit, ia_step_limit, ia_actions,
                   ia_k, ia_outputs, ia_executed, ia_answers, ia_n_calls, ia_result>>

\* run(): a recoverable exception, its message is added and the loop continues
IaExceptContinue ==
    /\ ia_pc = "except"
    /\ ia_exc.e \in IaNonTerminating
    /\ ia_messages' = Append(ia_messages, [role |-> ExceptionRole(ia_exc.e), kind |-> ia_exc.kind,
                                           content |-> ia_exc.content])
    /\ ia_pc' = "step"
    /\ UNCHANGED <<agentVars, modelVars, envVars, retryVars, moreVars, ia_mode, ia_confirm_exit, ia_step_limit,
                   ia_actions, ia_k, ia_outputs, ia_executed, ia_answers, ia_input, ia_n_calls,
                   ia_steps, ia_exc, ia_result>>

\* run(): Submitted or LimitsExceeded, the run returns
IaExceptReturn ==
    /\ ia_pc = "except"
    /\ ia_exc.e \in IaTerminating
    /\ ia_messages' = Append(ia_messages, [role |-> ExceptionRole(ia_exc.e), kind |-> ia_exc.kind,
                                           content |-> ia_exc.content])
    /\ ia_result' = ia_exc.e
    /\ ia_pc' = "done"
    /\ UNCHANGED <<agentVars, modelVars, envVars, retryVars, moreVars, ia_mode, ia_confirm_exit, ia_step_limit,
                   ia_actions, ia_k, ia_outputs, ia_executed, ia_answers, ia_input, ia_n_calls,
                   ia_steps, ia_exc>>

InitInteractive ==
    /\ AgentIdle
    /\ ModelIdle
    /\ EnvIdle
    /\ n_calls = 0
    /\ cost = 0
    /\ cost_per_call = 1
    /\ ia_pc = "step"
    /\ ia_mode \in {"human", "confirm", "yolo"}
    /\ ia_confirm_exit \in BOOLEAN
    /\ ia_step_limit \in NewStepLimits
    /\ ia_messages = <<[role |-> "system", kind |-> "system", content |-> SystemPrompt],
                       [role |-> "user", kind |-> "task", content |-> InstancePrompt]>>
    /\ ia_actions = <<>>
    /\ ia_k = 0
    /\ ia_outputs = <<>>
    /\ ia_executed = <<>>
    /\ ia_answers = {}
    /\ ia_input = "none"
    /\ ia_n_calls = 0
    /\ ia_steps = 0
    /\ ia_exc = NoInterruption
    /\ ia_result = "none"
    /\ RetryIdle
    /\ MoreIdle

NextInteractive ==
    \/ IaQueryHuman
    \/ IaQueryModel
    \/ IaQueryLimits
    \/ IaExecute
    \/ IaSubmit
    \/ IaReject
    \/ IaObserve
    \/ IaKeyboardInterrupt
    \/ IaExceptContinue
    \/ IaExceptReturn

SpecInteractive == InitInteractive /\ [][NextInteractive]_vars

\* ------------------------------------------------------------------ retries
DefaultAttempts == 10   \* stop_after_attempt(10)

\* the clients whose _query() is wrapped in tenacity's retry
RetryClients == {"PortkeyModel", "PortkeyResponseAPIModel", "RequestyModel",
                 "LitellmResponseAPIModel"}

\* the values of MSWEA_MODEL_RETRY_STOP_AFTER_ATTEMPT (0: not set)
RetryEnvValues == {0, 1, 2}

\* what a provider request may raise
ProviderErrors == {"RateLimitError", "InternalServerError", "APIConnectionError", "APIError",
                   "TypeError", "UnsupportedParamsError", "NotFoundError",
                   "PermissionDeniedError", "ContextWindowExceededError",
                   "AuthenticationError", "KeyboardInterrupt"}

\* stop=stop_after_attempt(...) of the client's decorator
StopAfterAttempt(client, env) ==
    IF client = "PortkeyResponseAPIModel" /\ env # 0 THEN env ELSE DefaultAttempts

\* reraise=True is in the client's decorator
Reraise(client) == client # "PortkeyModel"

\* a decorator that retries nothing
NotRetriedAny(client) == ProviderErrors

\* retry=retry_if_not_exception_type(...) of the client's decorator
NotRetried(client) ==
    CASE client = "PortkeyModel" -> {"KeyboardInterrupt"}
      [] client = "PortkeyResponseAPIModel" -> {"KeyboardInterrupt", "TypeError", "ValueError"}
      [] client = "RequestyModel" -> {"AuthenticationError", "KeyboardInterrupt"}
      [] OTHER -> {"UnsupportedParamsError", "NotFoundError", "PermissionDeniedError",
                   "ContextWindowExceededError", "APIError", "AuthenticationError",
                   "KeyboardInterrupt"}

\* a request is due: the first one, or the one after the wait
RtDue == rt_state \in {"calling", "waiting"}

\* _query(): the provider answers
RtSucceed ==
    /\ RtDue
    /\ rt_attempts' = rt_attempts + 1
    /\ rt_state' = "returned"
    /\ UNCHANGED <<agentVars, modelVars, envVars, iaVars, moreVars, rt_client, rt_env, rt_last_error,
                   rt_raised>>

\* _query(): the request fails with an error the decorator does not retry
RtAbort ==
    /\ RtDue
    /\ \E err \in ProviderErrors :
          /\ err \in NotRetried(rt_client)
          /\ rt_last_error' = err
          /\ rt_raised' = err
    /\ rt_attempts' = rt_attempts + 1
    /\ rt_state' = "raised"
    /\ UNCHANGED <<agentVars, modelVars, envVars, iaVars, moreVars, rt_client, rt_env>>

\* _query(): the request fails and it was the last attempt
RtExhausted ==
    /\ RtDue
    /\ rt_attempts + 1 >= StopAfterAttempt(rt_client, rt_env)
    /\ \E err \in ProviderErrors :
          /\ err \notin NotRetried(rt_client)
          /\ rt_last_error' = err
          /\ rt_raised' = IF Reraise(rt_client) THEN err ELSE "RetryError"
    /\ rt_attempts' = rt_attempts + 1
    /\ rt_state' = "raised"
    /\ UNCHANGED <<agentVars, modelVars, envVars, iaVars, moreVars, rt_client, rt_env>>

\* _query(): the request fails, the decorator waits and tries again
RtRetry ==
    /\ RtDue
    /\ rt_attempts + 1 < StopAfterAttempt(rt_client, rt_env)
    /\ \E err \in ProviderErrors :
          /\ err \notin NotRetried(rt_client)
          /\ rt_last_error' = err
    /\ rt_attempts' = rt_attempts + 1
    /\ rt_state' = "waiting"
    /\ UNCHANGED <<agentVars, modelVars, envVars, iaVars, moreVars, rt_client, rt_env, rt_raised>>

InitRetry ==
    /\ AgentIdle
    /\ ModelIdle
    /\ EnvIdle
    /\ IaIdle
    /\ MoreIdle
    /\ n_calls = 0
    /\ cost = 0
    /\ cost_per_call = 1
    /\ rt_client \in RetryClients
    /\ rt_env \in RetryEnvValues
    /\ rt_attempts = 0
    /\ rt_last_error = "none"
    /\ rt_state = "calling"
    /\ rt_raised = "none"

NextRetry ==
    \/ RtSucceed
    \/ RtAbort
    \/ RtExhausted
    \/ RtRetry

SpecRetry == InitRetry /\ [][NextRetry]_vars

\* ---------------------------------------------------------- cost accounting
\* the classes of the model objects
CostClients == {"LitellmModel", "LitellmResponseAPIModel", "PortkeyResponseAPIModel",
                "RequestyModel", "DeterministicModel"}

\* what the provider's cost calculator does with a response: it fails, or gives a cost
CalcOutcomes == [failed : {TRUE}, cost : {0}] \cup [failed : {FALSE}, cost : 0..MaxCallCost]

CostOk(c) == [raised |-> "none", cost |-> c]
CostRaised(e) == [raised |-> e, cost |-> 0]

\* LitellmModel._calculate_cost
LitellmCalculateCost(tracking, calc) ==
    IF calc.failed \/ calc.cost <= 0
    THEN IF tracking # "ignore_errors" THEN CostRaised("RuntimeError") ELSE CostOk(0)
    ELSE CostOk(calc.cost)

\* LitellmResponseAPIModel._calculate_cost
LitellmResponseAPICalculateCost(tracking, calc) ==
    IF calc.failed THEN CostRaised("CalculatorError") ELSE CostOk(calc.cost)

\* PortkeyResponseAPIModel._calculate_cost
PortkeyResponseAPICalculateCost(tracking, calc) ==
    IF calc.failed \/ ~(calc.cost > 0)
    THEN IF tracking # "ignore_errors" THEN CostRaised("RuntimeError") ELSE CostOk(0)
    ELSE CostOk(calc.cost)

\* RequestyModel._calculate_cost: a response without usage.cost counts as cost 0.0
RequestyCalculateCost(tracking, calc) ==
    LET c == IF calc.failed THEN 0 ELSE calc.cost
    IN IF c = 0 THEN CostRaised("RequestyAPIError") ELSE CostOk(c)

\* DeterministicModel._calculate_cost: the configured cost_per_call
DeterministicCalculateCost(tracking, calc) == CostOk(calc.cost)

\* GLOBAL_MODEL_STATS.add(cost)
GlobalAdd(stats, c) == [n_calls |-> stats.n_calls + 1, cost |-> stats.cost + c]

\* self.n_calls += 1 (with c = 1), self.cost += cost
OwnAdd(totals, m, c) == [totals EXCEPT ![m] = @ + c]

\* the bookkeeping of this model: what query() returned or raised
CsRecord(m, calc, out) ==
    /\ cs_last' = [model |-> m, failed |-> calc.failed, calc |-> calc.cost,
                   kind |-> IF out.raised = "none" THEN "returned" ELSE "raised",
                   exc |-> out.raised, cost |-> out.cost]
    /\ cs_obtained' = IF out.raised = "none"
                      THEN [cs_obtained EXCEPT ![m] = [n |-> @.n + 1, cost |-> @.cost + out.cost]]
                      ELSE cs_obtained

CsCanQuery(m, client) ==
    /\ cs_client[m] = client
    /\ cs_global.n_calls < MaxCostQueries

\* LitellmModel.query: the cost goes to GLOBAL_MODEL_STATS only
CsLitellmQuery ==
    \E m \in Models, calc \in CalcOutcomes :
        LET out == LitellmCalculateCost(cs_tracking, calc)
        IN /\ CsCanQuery(m, "LitellmModel")
           /\ CsRecord(m, calc, out)
           /\ cs_global' = IF out.raised = "none" THEN GlobalAdd(cs_global, out.cost) ELSE cs_global
           /\ UNCHANGED <<exceptCost, cs_client, cs_tracking, cs_n_calls, cs_cost>>

\* LitellmResponseAPIModel.query
CsLitellmResponseAPIQuery ==
    \E m \in Models, calc \in CalcOutcomes :
        LET out == LitellmResponseAPICalculateCost(cs_tracking, calc)
        IN /\ CsCanQuery(m, "LitellmResponseAPIModel")
           /\ CsRecord(m, calc, out)
           /\ IF out.raised = "none"
              THEN /\ cs_n_calls' = OwnAdd(cs_n_calls, m, 1)
                   /\ cs_cost' = OwnAdd(cs_cost, m, out.cost)
                   /\ cs_global' = GlobalAdd(cs_global, out.cost)
              ELSE UNCHANGED <<cs_n_calls, cs_cost, cs_global>>
           /\ UNCHANGED <<exceptCost, cs_client, cs_tracking>>

\* PortkeyResponseAPIModel.query
CsPortkeyResponseAPIQuery ==
    \E m \in Models, calc \in CalcOutcomes :
        LET out == PortkeyResponseAPICalculateCost(cs_tracking, calc)
        IN /\ CsCanQuery(m, "PortkeyResponseAPIModel")
           /\ CsRecord(m, calc, out)
           /\ IF out.raised = "none"
              THEN /\ cs_n_calls' = OwnAdd(cs_n_calls, m, 1)
                   /\ cs_cost' = OwnAdd(cs_cost, m, out.cost)
                   /\ cs_global' = GlobalAdd(cs_global, out.cost)
              ELSE UNCHANGED <<cs_n_calls, cs_cost, cs_global>>
           /\ UNCHANGED <<exceptCost, cs_client, cs_tracking>>

\* RequestyModel.query: the cost goes to GLOBAL_MODEL_STATS only
CsRequestyQuery ==
    \E m \in Models, calc \in CalcOutcomes :
        LET out == RequestyCalculateCost(cs_tracking, calc)
        IN /\ CsCanQuery(m, "RequestyModel")
           /\ CsRecord(m, calc, out)
           /\ cs_global' = IF out.raised = "none" THEN GlobalAdd(cs_global, out.cost) ELSE cs_global
           /\ UNCHANGED <<exceptCost, cs_client, cs_tracking, cs_n_calls, cs_cost>>

\* DeterministicModel.query: cost_per_call is positive
CsDeterministicQuery ==
    \E m \in Models, calc \in CalcOutcomes :
        LET out == DeterministicCalculateCost(cs_tracking, calc)
        IN /\ CsCanQuery(m, "DeterministicModel")
           /\ ~calc.failed
           /\ calc.cost > 0
           /\ CsRecord(m, calc, out)
           /\ cs_n_calls' = OwnAdd(cs_n_calls, m, 1)
           /\ cs_cost' = OwnAdd(cs_cost, m, out.cost)
           /\ cs_global' = GlobalAdd(cs_global, out.cost)
           /\ UNCHANGED <<exceptCost, cs_client, cs_tracking>>

InitCost ==
    /\ AgentIdle
    /\ ModelIdle
    /\ EnvIdle
    /\ IaIdle
    /\ RetryIdle
    /\ FormatIdle
    /\ LifeIdle
    /\ SaveIdle
    /\ LateIdle
    /\ n_calls = 0
    /\ cost = 0
    /\ cost_per_call = 1
    /\ cs_client \in [Models -> CostClients]
    /\ cs_tracking \in {"default", "ignore_errors"}
    /\ cs_n_calls = [m \in Models |-> 0]
    /\ cs_cost = [m \in Models |-> 0]
    /\ cs_global = [n_calls |-> 0, cost |-> 0]
    /\ cs_obtained = [m \in Models |-> [n |-> 0, cost |-> 0]]
    /\ cs_last = NoQuery

NextCost ==
    \/ CsLitellmQuery
    \/ CsLitellmResponseAPIQuery
    \/ CsPortkeyResponseAPIQuery
    \/ CsRequestyQuery
    \/ CsDeterministicQuery

SpecCost == InitCost /\ [][NextCost]_vars

\* ------------------------------------------------------ observation messages
\* the dialects: text (models/utils/actions_text.py), tool calls of the chat completions
\* API (LitellmToolcallModel), tool calls of the Responses API
\* (models/utils/actions_toolcall_response.py)
FormatDialects == {"text", "toolcall", "response"}

ToolCallIds == {"call_a", "call_b"}

\* extra.actions of an assistant message
ActionLists ==
    {[k \in 1..Len(ids) |-> [command |-> <<"cmd">>, tool_call_id |-> ids[k]]] :
        ids \in SeqsUpTo(ToolCallIds, MaxToolCalls)}

\* what execute() gave for the actions
OutputLists ==
    SeqsUpTo({[output |-> <<"out">>, returncode |-> 0], [output |-> <<>>, returncode |-> 1]},
             MaxToolCalls)

\* zip(actions, outputs) stops at the shorter list
ZipLen(actions, outputs) == IF Len(actions) <= Len(outputs) THEN Len(actions) ELSE Len(outputs)

ObservationMessage(role, type, tool_call_id, call_id, content) ==
    [role |-> role, type |-> type, tool_call_id |-> tool_call_id, call_id |-> call_id,
     content |-> content]

\* models/utils/actions_text.py, format_observation_messages
FormatObservationMessages(actions, outputs) ==
    [j \in 1..Len(outputs) |->
        ObservationMessage("user", Null, Null, Null, Observation(outputs[j]))]

\* tool messages that all carry the id of the first action
LitellmToolcallFormatFirstId(actions, outputs) ==
    [j \in 1..ZipLen(actions, outputs) |->
        ObservationMessage("tool", Null, actions[1].tool_call_id, Null, Observation(outputs[j]))]

\* LitellmToolcallModel.format_observation_messages
LitellmToolcallFormat(actions, outputs) ==
    [j \in 1..ZipLen(actions, outputs) |->
        ObservationMessage("tool", Null, actions[j].tool_call_id, Null, Observation(outputs[j]))]

\* models/utils/actions_toolcall_response.py, format_toolcall_observation_messages
FormatToolcallObservationMessages(actions, outputs) ==
    [j \in 1..ZipLen(actions, outputs) |->
        ObservationMessage(Null, "function_call_output", Null, actions[j].tool_call_id,
                           Observation(outputs[j]))]

FoFormatText ==
    /\ fo_dialect = "text"
    /\ ~fo_done
    /\ fo_result' = FormatObservationMessages(fo_actions, fo_outputs)
    /\ fo_done' = TRUE
    /\ UNCHANGED <<exceptFormat, fo_dialect, fo_actions, fo_outputs>>

FoFormatToolcall ==
    /\ fo_dialect = "toolcall"
    /\ ~fo_done
    /\ fo_result' = LitellmToolcallFormat(fo_actions, fo_outputs)
    /\ fo_done' = TRUE
    /\ UNCHANGED <<exceptFormat, fo_dialect, fo_actions, fo_outputs>>

FoFormatResponse ==
    /\ fo_dialect = "response"
    /\ ~fo_done
    /\ fo_result' = FormatToolcallObservationMessages(fo_actions, fo_outputs)
    /\ fo_done' = TRUE
    /\ UNCHANGED <<exceptFormat, fo_dialect, fo_actions, fo_outputs>>

InitFormat ==
    /\ AgentIdle
    /\ ModelIdle
    /\ EnvIdle
    /\ IaIdle
    /\ RetryIdle
    /\ CostIdle
    /\ LifeIdle
    /\ SaveIdle
    /\ LateIdle
    /\ n_calls = 0
    /\ cost = 0
    /\ cost_per_call = 1
    /\ fo_dialect \in FormatDialects
    /\ fo_actions \in ActionLists
    /\ fo_outputs \in OutputLists
    /\ fo_done = FALSE
    /\ fo_result = <<>>

NextFormat ==
    \/ FoFormatText
    \/ FoFormatToolcall
    \/ FoFormatResponse

SpecFormat == InitFormat /\ [][NextFormat]_vars

\* ------------------------------------------------- environments' resources
SandboxBuildRetries == 3   \* SingularityEnvironmentConfig.sandbox_build_retries

\* the environments that acquire a container, a sandbox or a directory in __init__
ResourceEnvs == {"DockerEnvironment", "SingularityEnvironment", "SwerexDockerEnvironment",
                 "BubblewrapEnvironment"}

\* the classes that define __del__ (which calls cleanup)
HasDel == {"DockerEnvironment", "SingularityEnvironment", "BubblewrapEnvironment"}

\* how a run with a constructed environment ends
RunEnds == {"Submitted", "LimitsExceeded", "RuntimeError"}

\* __init__ has acquired the resource and returned
LcReady ==
    /\ lc_state' = "ready"
    /\ lc_handle' = TRUE
    /\ lc_held' = TRUE

\* __init__ raised before the resource existed
LcFailed ==
    /\ lc_state' = "failed"
    /\ lc_handle' = FALSE
    /\ lc_held' = FALSE
    /\ lc_end' = "ConstructionError"

\* DockerEnvironment.__init__: _start_container sets container_id
LcDockerStart ==
    /\ lc_env = "DockerEnvironment" /\ lc_state = "new"
    /\ LcReady
    /\ UNCHANGED <<exceptLife, lc_env, lc_attempts, lc_execs, lc_end>>

\* DockerEnvironment.__init__: docker run fails, container_id stays None
LcDockerStartFail ==
    /\ lc_env = "DockerEnvironment" /\ lc_state = "new"
    /\ LcFailed
    /\ UNCHANGED <<exceptLife, lc_env, lc_attempts, lc_execs>>

\* SingularityEnvironment._build_sandbox: the build succeeds
LcSingularityBuild ==
    /\ lc_env = "SingularityEnvironment" /\ lc_state = "new"
    /\ lc_attempts < SandboxBuildRetries
    /\ lc_attempts' = lc_attempts + 1
    /\ LcReady
    /\ UNCHANGED <<exceptLife, lc_env, lc_execs, lc_end>>

\* SingularityEnvironment._build_sandbox: the build fails, the directory is removed,
\* and the error is raised after the last attempt
LcSingularityBuildFail ==
    /\ lc_env = "SingularityEnvironment" /\ lc_state = "new"
    /\ lc_attempts < SandboxBuildRetries
    /\ lc_attempts' = lc_attempts + 1
    /\ IF lc_attempts + 1 = SandboxBuildRetries
       THEN LcFailed
       ELSE UNCHANGED <<lc_state, lc_handle, lc_held, lc_end>>
    /\ UNCHANGED <<exceptLife, lc_env, lc_execs>>

\* SwerexDockerEnvironment.__init__: the deployment is started
LcSwerexStart ==
    /\ lc_env = "SwerexDockerEnvironment" /\ lc_state = "new"
    /\ LcReady
    /\ UNCHANGED <<exceptLife, lc_env, lc_attempts, lc_execs, lc_end>>

\* SwerexDockerEnvironment.__init__: the deployment cannot be made
LcSwerexStartFail ==
    /\ lc_env = "SwerexDockerEnvironment" /\ lc_state = "new"
    /\ LcFailed
    /\ UNCHANGED <<exceptLife, lc_env, lc_attempts, lc_execs>>

\* BubblewrapEnvironment.__init__: the working directory is made
LcBubblewrapInit ==
    /\ lc_env = "BubblewrapEnvironment" /\ lc_state = "new"
    /\ LcReady
    /\ UNCHANGED <<exceptLife, lc_env, lc_attempts, lc_execs, lc_end>>

\* execute(): a command runs in the environment
LcExecute ==
    /\ lc_state = "ready"
    /\ lc_execs < MaxMessages
    /\ lc_execs' = lc_execs + 1
    /\ UNCHANGED <<exceptLife, lc_env, lc_state, lc_handle, lc_held, lc_attempts, lc_end>>

\* the run ends: Submitted, LimitsExceeded, or an exception nothing catches
LcRunEnds ==
    /\ lc_state = "ready"
    /\ \E end \in RunEnds : lc_end' = end
    /\ lc_state' = "ended"
    /\ UNCHANGED <<exceptLife, lc_env, lc_handle, lc_held, lc_attempts, lc_execs>>

\* the environment object is destroyed: __del__, where the class has one, calls
\* cleanup(), which releases the resource the object holds the name of
LcDel ==
    /\ lc_state \in {"ended", "failed"}
    /\ lc_state' = "destroyed"
    /\ lc_held' = IF lc_env \in HasDel /\ lc_handle THEN FALSE ELSE lc_held
    /\ UNCHANGED <<exceptLife, lc_env, lc_handle, lc_attempts, lc_execs, lc_end>>

InitLife ==
    /\ AgentIdle
    /\ ModelIdle
    /\ EnvIdle
    /\ IaIdle
    /\ RetryIdle
    /\ CostIdle
    /\ FormatIdle
    /\ SaveIdle
    /\ LateIdle
    /\ n_calls = 0
    /\ cost = 0
    /\ cost_per_call = 1
    /\ lc_env \in ResourceEnvs
    /\ lc_state = "new"
    /\ lc_handle = FALSE
    /\ lc_held = FALSE
    /\ lc_attempts = 0
    /\ lc_execs = 0
    /\ lc_end = "none"

NextLife ==
    \/ LcDockerStart
    \/ LcDockerStartFail
    \/ LcSingularityBuild
    \/ LcSingularityBuildFail
    \/ LcSwerexStart
    \/ LcSwerexStartFail
    \/ LcBubblewrapInit
    \/ LcExecute
    \/ LcRunEnds
    \/ LcDel

SpecLife == InitLife /\ [][NextLife]_vars

\* ------------------------------------------------------ the trajectory file
Savers == {"save", "save_traj"}

\* Path.write_text, first half: open(path, "w") creates the file or truncates it
OpenForWriting(doc) ==
    [exists |-> TRUE, version |-> doc.version, chunks |-> 0, total |-> doc.chunks]

\* a save of the next version of the trajectory begins
SvBegin ==
    /\ sv_pc = "idle"
    /\ sv_saves < MaxSaves
    /\ \E n \in 1..MaxChunks :
          /\ sv_doc' = [version |-> sv_saves + 1, chunks |-> n]
          /\ sv_file' = OpenForWriting(sv_doc')
    /\ sv_saves' = sv_saves + 1
    /\ sv_pc' = "writing"
    /\ UNCHANGED <<exceptSave, sv_saver>>

\* DefaultAgent.save: path.write_text(json.dumps(data, indent=2)) opens the file
SvSave ==
    /\ sv_saver = "save"
    /\ SvBegin

\* save_traj: path.write_text(json.dumps(data, indent=2)) opens the file
SvSaveTraj ==
    /\ sv_saver = "save_traj"
    /\ SvBegin

\* Path.write_text: a part of the text reaches the file
SvWrite ==
    /\ sv_pc = "writing"
    /\ sv_file.chunks < sv_doc.chunks
    /\ sv_file' = [sv_file EXCEPT !.chunks = @ + 1]
    /\ UNCHANGED <<exceptSave, sv_saver, sv_pc, sv_doc, sv_saves>>

\* Path.write_text: all the text is written, the file is closed
SvClose ==
    /\ sv_pc = "writing"
    /\ sv_file.chunks = sv_doc.chunks
    /\ sv_pc' = "idle"
    /\ UNCHANGED <<exceptSave, sv_saver, sv_doc, sv_file, sv_saves>>

\* the process dies while the file is open
SvCrash ==
    /\ sv_pc = "writing"
    /\ sv_pc' = "crashed"
    /\ UNCHANGED <<exceptSave, sv_saver, sv_doc, sv_file, sv_saves>>

InitSave ==
    /\ AgentIdle
    /\ ModelIdle
    /\ EnvIdle
    /\ IaIdle
    /\ RetryIdle
    /\ CostIdle
    /\ FormatIdle
    /\ LifeIdle
    /\ LateIdle
    /\ n_calls = 0
    /\ cost = 0
    /\ cost_per_call = 1
    /\ sv_saver \in Savers
    /\ sv_pc = "idle"
    /\ sv_doc = NoDoc
    /\ sv_file = NoSavedFile
    /\ sv_saves = 0

NextSave ==
    \/ SvSave
    \/ SvSaveTraj
    \/ SvWrite
    \/ SvClose
    \/ SvCrash

SpecSave == InitSave /\ [][NextSave]_vars

\* ------------------------------------------------------ template rendering
\* the templates of AgentConfig
Templates ==
    {"system_template", "instance_template", "timeout_template", "format_error_template",
     "action_observation_template"}

\* str(e) of the jinja2 UndefinedError a render raises
Undefined(template) == <<"undefined", template>>

\* run(): a prompt template does not render; the renders stand before the try
RunRenderFail ==
    /\ pc = "init"
    /\ ~(Renders("system_template") /\ Renders("instance_template"))
    /\ messages' = IF Renders("system_template")
                      THEN AddMessage(<<>>, "system", SystemPrompt) ELSE <<>>
    /\ LET t == IF Renders("system_template") THEN "instance_template" ELSE "system_template"
       IN /\ exc' = [e |-> "UndefinedError", text |-> Undefined(t)]
          /\ result' = [kind |-> "raised", exit_status |-> "UndefinedError",
                        submission |-> Undefined(t)]
    /\ pc' = "done"
    /\ UNCHANGED <<modelVars, envVars, extVars, response, n_calls, cost, n_queries, executed,
                   config, out_file, traj_file>>

\* parse_action(): the format_error_template does not render
ParseRenderFail ==
    /\ pc = "observe"
    /\ Len(ParseAction(response)) # 1
    /\ ~Renders("format_error_template")
    /\ Raise("UndefinedError", Undefined("format_error_template"))
    /\ UNCHANGED <<modelVars, envVars, extVars, messages, response, n_calls, cost, n_queries,
                   executed, config, out_file, result>>

\* get_observation(): the command ran, the action_observation_template does not render
ExecRenderFail ==
    /\ pc = "observe"
    /\ Len(ParseAction(response)) = 1
    /\ ~Renders("action_observation_template")
    /\ \E output \in EnvOutputs :
          /\ ~HasFinished(output)
          /\ executed' = Execute(response, "ok", output.output)
    /\ Raise("UndefinedError", Undefined("action_observation_template"))
    /\ UNCHANGED <<modelVars, envVars, extVars, messages, response, n_calls, cost, n_queries,
                   config, out_file, result>>

\* execute_action(): the command timed out, the timeout_template does not render
TimeoutRenderFail ==
    /\ pc = "observe"
    /\ Len(ParseAction(response)) = 1
    /\ ~Renders("timeout_template")
    /\ \E partial \in PartialOutputs :
          executed' = Execute(response, "timeout", partial)
    /\ Raise("UndefinedError", Undefined("timeout_template"))
    /\ UNCHANGED <<modelVars, envVars, extVars, messages, response, n_calls, cost, n_queries,
                   config, out_file, result>>

InitRender ==
    /\ pc = "init"
    /\ messages = <<>>
    /\ response = <<>>
    /\ n_calls = 0
    /\ cost = 0
    /\ n_queries = 0
    /\ executed = <<>>
    /\ step_limit \in 0..MaxStepLimit
    /\ cost_limit = 0
    /\ cost_per_call = 1
    /\ output_path \in BOOLEAN
    /\ traj_path = FALSE
    /\ out_file = NoFile
    /\ traj_file = NoFile
    /\ result = [kind |-> "none", exit_status |-> Null, submission |-> <<>>]
    /\ exc = NoException
    /\ ModelIdle
    /\ EnvIdle
    /\ IaIdle
    /\ RetryIdle
    /\ CostIdle
    /\ FormatIdle
    /\ LifeIdle
    /\ SaveIdle
    /\ LateIdleButRender
    /\ rn_unbound \in SUBSET Templates

NextRender ==
    \/ Run
    \/ RunRenderFail
    \/ QueryLimits
    \/ QueryOk
    \/ QueryFail
    \/ ParseFail
    \/ ParseRenderFail
    \/ ExecOk
    \/ ExecRenderFail
    \/ ExecSubmit
    \/ ExecTimeout
    \/ TimeoutRenderFail
    \/ ExceptContinue
    \/ ExceptReturn
    \/ ExceptRaise

SpecRender == InitRender /\ [][NextRender]_vars

\* ------------------------------------------------------- batch orchestrator
\* the instances that are in flight
BtRunning == {i \in Instances : bt_status[i] = "running"}

\* a pool that starts a task whenever one is pending
BtFreeWorkerAlways == TRUE

\* a worker of the pool of size N is free
BtFreeWorker == Cardinality(BtRunning) < bt_workers

\* Resume: with redo_existing false an instance whose trajectory exists is skipped
BtSkips(i) == ~bt_redo /\ i \in bt_existing

BtSkip ==
    /\ \E i \in Instances :
          /\ bt_status[i] = "pending"
          /\ BtSkips(i)
          /\ bt_status' = [bt_status EXCEPT ![i] = "skipped"]
    /\ UNCHANGED <<exceptBatch, bt_workers, bt_existing, bt_redo, bt_interrupts>>

\* Schedule: a free worker takes a pending instance
BtStartTask ==
    /\ bt_interrupts = 0
    /\ BtFreeWorker
    /\ \E i \in Instances :
          /\ bt_status[i] = "pending"
          /\ ~BtSkips(i)
          /\ bt_status' = [bt_status EXCEPT ![i] = "running"]
    /\ UNCHANGED <<exceptBatch, bt_workers, bt_existing, bt_redo, bt_interrupts>>

\* a worker's agent ends its run
BtFinish ==
    /\ \E i \in BtRunning : bt_status' = [bt_status EXCEPT ![i] = "submitted"]
    /\ UNCHANGED <<exceptBatch, bt_workers, bt_existing, bt_redo, bt_interrupts>>

\* Isolation: a worker crashes; its instance is marked failed, the others go on
BtCrash ==
    /\ \E i \in BtRunning : bt_status' = [bt_status EXCEPT ![i] = "failed"]
    /\ UNCHANGED <<exceptBatch, bt_workers, bt_existing, bt_redo, bt_interrupts>>

\* Cancellation: the first interrupt cancels what has not started, the second aborts
BtInterrupt ==
    /\ bt_interrupts < 2
    /\ bt_interrupts' = bt_interrupts + 1
    /\ bt_status' = [i \in Instances |->
                       IF bt_interrupts = 0 /\ bt_status[i] = "pending" THEN "cancelled"
                       ELSE IF bt_interrupts = 1 /\ bt_status[i] = "running" THEN "aborted"
                       ELSE bt_status[i]]
    /\ UNCHANGED <<exceptBatch, bt_workers, bt_existing, bt_redo>>

InitBatch ==
    /\ EarlyIdle
    /\ LateIdleButBatch
    /\ bt_workers \in 1..MaxWorkers
    /\ bt_existing \in SUBSET Instances
    /\ bt_redo \in BOOLEAN
    /\ bt_status = [i \in Instances |-> "pending"]
    /\ bt_interrupts = 0

NextBatch ==
    \/ BtSkip
    \/ BtStartTask
    \/ BtFinish
    \/ BtCrash
    \/ BtInterrupt

SpecBatch == InitBatch /\ [][NextBatch]_vars

\* ---------------------------------------------------- Responses API clients
ResponseClients == {"LitellmResponseAPIModel", "PortkeyResponseAPIModel"}

\* a request that always carries the whole log
ResponseInputAll(msgs, previous) == 1..Len(msgs)

\* LitellmResponseAPIModel._query:
\* clean_messages if self._previous_response_id is None else clean_messages[-1:]
LitellmResponseInput(msgs, previous) ==
    IF previous = 0 THEN 1..Len(msgs) ELSE {Len(msgs)} \ {0}

\* PortkeyResponseAPIModel._query:
\* messages if self._previous_response_id is None else messages[-1:]
PortkeyResponseInput(msgs, previous) ==
    IF previous = 0 THEN 1..Len(msgs) ELSE {Len(msgs)} \ {0}

ResponseInput(client, msgs, previous) ==
    IF client = "LitellmResponseAPIModel" THEN LitellmResponseInput(msgs, previous)
    ELSE PortkeyResponseInput(msgs, previous)

\* the request a call of _query makes in the state the client is in
RaRequest(ok) ==
    [input |-> ResponseInput(ra_client, ra_log, ra_previous_response_id),
     previous |-> ra_previous_response_id,
     ok |-> ok,
     latest |-> ra_ok_id,
     since |-> (ra_mark + 1)..Len(ra_log),
     len |-> Len(ra_log),
     n |-> ra_requests + 1]

\* the agent may ask the model: it is not in human mode, or the user types /c or /y
RaCanQuery ==
    /\ ra_pc \in {"query", "retry"}
    /\ ra_requests < MaxRequests
    /\ Len(ra_log) < MaxLog

\* query(): the request returns, its id is stored, the response parses and the agent
\* adds the assistant message
RaQueryOk ==
    /\ RaCanQuery
    /\ ra_last' = RaRequest(TRUE)
    /\ ra_requests' = ra_requests + 1
    /\ ra_previous_response_id' = ra_requests'
    /\ ra_ok_id' = ra_requests'
    /\ ra_log' = Append(ra_log, "lm")
    /\ ra_mark' = Len(ra_log')
    /\ ra_mode' = "confirm"
    /\ ra_pc' = "actions"
    /\ UNCHANGED <<exceptResponse, ra_client>>

\* query(): the request returns and its id is stored, parse_actions raises FormatError;
\* the agent adds the error as a user message
RaQueryFormatError ==
    /\ RaCanQuery
    /\ ra_last' = RaRequest(TRUE)
    /\ ra_requests' = ra_requests + 1
    /\ ra_previous_response_id' = ra_requests'
    /\ ra_ok_id' = ra_requests'
    /\ ra_mark' = Len(ra_log)
    /\ ra_log' = Append(ra_log, "format_error")
    /\ ra_mode' = "confirm"
    /\ ra_pc' = "query"
    /\ UNCHANGED <<exceptResponse, ra_client>>

\* _query(): the request raises; the retry decorator calls again or gives up
RaRequestFails ==
    /\ RaCanQuery
    /\ ra_last' = RaRequest(FALSE)
    /\ ra_requests' = ra_requests + 1
    /\ \E gives_up \in BOOLEAN : ra_pc' = IF gives_up THEN "done" ELSE "retry"
    /\ UNCHANGED <<exceptResponse, ra_client, ra_mode, ra_log, ra_previous_response_id,
                   ra_ok_id, ra_mark>>

\* InteractiveAgent.query in human mode: the user's command is the assistant message
RaHumanCommand ==
    /\ ra_pc = "query"
    /\ ra_mode = "human"
    /\ Len(ra_log) < MaxLog
    /\ ra_log' = Append(ra_log, "human")
    /\ ra_pc' = "actions"
    /\ UNCHANGED <<exceptResponse, ra_client, ra_mode, ra_previous_response_id, ra_requests,
                   ra_ok_id, ra_mark, ra_last>>

\* execute_actions(): the action runs and its observation is added
RaObserve ==
    /\ ra_pc = "actions"
    /\ ra_log' = Append(ra_log, "observation")
    /\ ra_pc' = "query"
    /\ UNCHANGED <<exceptResponse, ra_client, ra_mode, ra_previous_response_id, ra_requests,
                   ra_ok_id, ra_mark, ra_last>>

\* _ask_confirmation_or_interrupt: the user rejects the model's action, with /u or a
\* comment; run() adds the UserInterruption's message
RaReject ==
    /\ ra_pc = "actions"
    /\ ra_mode = "confirm"
    /\ Last(ra_log) = "lm"
    /\ ra_log' = Append(ra_log, "interruption")
    /\ \E input \in {"/u", "text"} : ra_mode' = IF input = "/u" THEN "human" ELSE ra_mode
    /\ ra_pc' = "query"
    /\ UNCHANGED <<exceptResponse, ra_client, ra_previous_response_id, ra_requests, ra_ok_id,
                   ra_mark, ra_last>>

\* execute_actions(): the command submits and the run ends
RaSubmit ==
    /\ ra_pc = "actions"
    /\ ra_log' = Append(ra_log, "exit")
    /\ ra_pc' = "done"
    /\ UNCHANGED <<exceptResponse, ra_client, ra_mode, ra_previous_response_id, ra_requests,
                   ra_ok_id, ra_mark, ra_last>>

InitResponse ==
    /\ EarlyIdle
    /\ LateIdleButResponse
    /\ ra_client \in ResponseClients
    /\ ra_mode \in {"human", "confirm"}
    /\ ra_pc = "query"
    /\ ra_log = <<"system", "task">>
    /\ ra_previous_response_id = 0
    /\ ra_requests = 0
    /\ ra_ok_id = 0
    /\ ra_mark = 0
    /\ ra_last = NoRequest

NextResponse ==
    \/ RaQueryOk
    \/ RaQueryFormatError
    \/ RaRequestFails
    \/ RaHumanCommand
    \/ RaObserve
    \/ RaReject
    \/ RaSubmit

SpecResponse == InitResponse /\ [][NextResponse]_vars

\* ------------------------------------------------------ execute, run by run
\* the commands given to execute: one that changes the environment, one that does not
ExCommands == {"incr", "read"}

\* how one run of a command in the environment ends: it exits, or the run raises
\* (a timeout, a failure of the transport)
RunOutcomes == {"exit", "raise"}

\* the counter after a run of command that ended in outcome
RunEffect(counter, command, outcome) ==
    IF command = "incr" /\ outcome = "exit" THEN counter + 1 ELSE counter

\* execute() is entered with a command
ExBegin(command) ==
    /\ ex_pc = "ready"
    /\ ex_calls < MaxCalls
    /\ ex_calls' = ex_calls + 1
    /\ ex_incrs' = IF command = "incr" THEN ex_incrs + 1 ELSE ex_incrs

\* LocalEnvironment.execute: one subprocess.run
LocalExecute ==
    /\ ex_env = "LocalEnvironment"
    /\ \E command \in ExCommands, outcome \in RunOutcomes :
          /\ ExBegin(command)
          /\ ex_counter' = RunEffect(ex_counter, command, outcome)
          /\ ex_call' = [command |-> command, runs |-> 1,
                         ended |-> IF outcome = "exit" THEN "returned" ELSE "raised"]
    /\ UNCHANGED <<exceptExecute, ex_env, ex_pc>>

\* DockerEnvironment.execute: one subprocess.run of docker exec
DockerExecute ==
    /\ ex_env = "DockerEnvironment"
    /\ \E command \in ExCommands, outcome \in RunOutcomes :
          /\ ExBegin(command)
          /\ ex_counter' = RunEffect(ex_counter, command, outcome)
          /\ ex_call' = [command |-> command, runs |-> 1,
                         ended |-> IF outcome = "exit" THEN "returned" ELSE "raised"]
    /\ UNCHANGED <<exceptExecute, ex_env, ex_pc>>

\* ContreeEnvironment.execute, the session.run(...).wait() before the try: what it
\* raises leaves execute()
ContreeFirstRun ==
    /\ ex_env = "ContreeEnvironment"
    /\ \E command \in ExCommands, outcome \in RunOutcomes :
          /\ ExBegin(command)
          /\ ex_counter' = RunEffect(ex_counter, command, outcome)
          /\ ex_call' = [command |-> command, runs |-> 1,
                         ended |-> IF outcome = "exit" THEN "running" ELSE "raised"]
          /\ ex_pc' = IF outcome = "exit" THEN "second" ELSE "ready"
    /\ UNCHANGED <<exceptExecute, ex_env>>

\* ContreeEnvironment.execute, the session.run(...).wait() inside the try: its output
\* is returned, an exception becomes an output with returncode -1
ContreeSecondRun ==
    /\ ex_env = "ContreeEnvironment"
    /\ ex_pc = "second"
    /\ \E outcome \in RunOutcomes :
          ex_counter' = RunEffect(ex_counter, ex_call.command, outcome)
    /\ ex_call' = [ex_call EXCEPT !.runs = 2, !.ended = "returned"]
    /\ ex_pc' = "ready"
    /\ UNCHANGED <<exceptExecute, ex_env, ex_calls, ex_incrs>>

InitExecute ==
    /\ EarlyIdle
    /\ LateIdleButExecute
    /\ ex_env \in {"LocalEnvironment", "DockerEnvironment", "ContreeEnvironment"}
    /\ ex_pc = "ready"
    /\ ex_counter = 0
    /\ ex_calls = 0
    /\ ex_incrs = 0
    /\ ex_call = NoCall

NextExecute ==
    \/ LocalExecute
    \/ DockerExecute
    \/ ContreeFirstRun
    \/ ContreeSecondRun

SpecExecute == InitExecute /\ [][NextExecute]_vars

\* ------------------------------------------------------------- MemoryAgent
SummaryRefresh == 10   \* messages_since_summary < 10: the cached summary is used

\* the values of summarization_threshold and recent_messages_keep
MemThresholds == {3, 6}
MemKeeps == {1, 2}

\* messages is indexed from 1 here: self.messages[a:b] is (a + 1)..b
Slice(a, b) == (a + 1)..b

Max(a, b) == IF a >= b THEN a ELSE b

\* _get_or_create_summary: the cached summary serves
SummaryCached ==
    mm_len - mm_last_summary_at < SummaryRefresh /\ mm_summary.text

\* _get_or_create_summary: a new summary is made of messages[1:end_idx]
SummaryCreated == ~SummaryCached /\ mm_len - mm_keep > 1

\* _get_or_create_summary: current_summary after the call, the summarizer's text being
\* non-empty or empty
GetOrCreateSummary(text) ==
    IF SummaryCreated THEN [range |-> Slice(1, mm_len - mm_keep), text |-> text]
    ELSE mm_summary

\* _get_or_create_summary: what it returns (the cached summary, the new one, or "")
ReturnedSummary(text) ==
    IF SummaryCached \/ SummaryCreated THEN GetOrCreateSummary(text) ELSE NoSummary

\* _build_hybrid_context: the system message, the summary if the log is longer than
\* the threshold and the summary is not empty, the last recent_messages_keep messages
BuildHybridContext(text) ==
    [system |-> TRUE,
     summary |-> IF mm_len > mm_threshold /\ ReturnedSummary(text).text
                 THEN ReturnedSummary(text).range ELSE {},
     recent |-> Slice(Max(1, mm_len - mm_keep), mm_len),
     len |-> mm_len]

\* MemoryAgent.query: the context is built, the model answers, its message is added
MmQuery ==
    /\ mm_pc = "query"
    /\ mm_len < MaxMemLog
    /\ \E text \in BOOLEAN :
          /\ mm_context' = BuildHybridContext(text)
          /\ mm_summary' = IF mm_len > mm_threshold THEN GetOrCreateSummary(text) ELSE mm_summary
          /\ mm_last_summary_at' = IF mm_len > mm_threshold /\ SummaryCreated
                                   THEN mm_len - mm_keep ELSE mm_last_summary_at
    /\ mm_len' = mm_len + 1
    /\ mm_pc' = "observe"
    /\ UNCHANGED <<exceptMemory, mm_threshold, mm_keep>>

\* get_observation, or the handler of run(): the user message of the turn is added
MmObserve ==
    /\ mm_pc = "observe"
    /\ mm_len' = mm_len + 1
    /\ mm_pc' = "query"
    /\ UNCHANGED <<exceptMemory, mm_threshold, mm_keep, mm_last_summary_at, mm_summary,
                   mm_context>>

InitMemory ==
    /\ EarlyIdle
    /\ LateIdleButMemory
    /\ mm_threshold \in MemThresholds
    /\ mm_keep \in MemKeeps
    /\ mm_len = 2
    /\ mm_pc = "query"
    /\ mm_last_summary_at = 0
    /\ mm_summary = NoSummary
    /\ mm_context = NoContext

NextMemory ==
    \/ MmQuery
    \/ MmObserve

SpecMemory == InitMemory /\ [][NextMemory]_vars

\* ------------------------------------------------------- the streaming guard
\* delta.content of a chunk: nothing, plain text, or one closing tag of one of two names
ChunkContents == {"none", "text", "</a>", "</b>"}
ClosingTags == {"</a>", "</b>"}

\* the usage a chunk carries: none, one that _usage_is_valid accepts, one it refuses
ChunkUsages == {"none", "valid", "invalid"}

\* s[-n:]
LastOf(s, n) == IF Len(s) <= n THEN s ELSE SubSeq(s, Len(s) - n + 1, Len(s))

\* the occurrences of a tag in the tail
TagCount(tail, tag) == Cardinality({i \in 1..Len(tail) : tail[i] = tag})

\* _stream_guard_triggered
StreamGuardTriggered(tail) ==
    /\ tail # <<>>
    /\ \E tag \in ClosingTags : TagCount(tail, tag) >= TagThreshold

\* _usage_is_valid of the response rebuilt from the stream: without a usage from the
\* stream the response carries prompt_tokens = 0
UsageIsValid(usage) == usage = "valid"

\* _query, streaming: the request
SgRequestStream ==
    /\ sg_pc = "ready"
    /\ sg_streaming
    /\ sg_requests' = sg_requests + 1
    /\ sg_pc' = "stream"
    /\ UNCHANGED <<exceptStream, sg_streaming, sg_enabled, sg_chunks, sg_parts, sg_tail,
                   sg_usage, sg_triggered, sg_result>>

\* _query, not streaming: one request, its response returned
SgQueryPlain ==
    /\ sg_pc = "ready"
    /\ ~sg_streaming
    /\ sg_requests' = sg_requests + 1
    /\ sg_result' = [source |-> "completion", content |-> <<>>]
    /\ sg_pc' = "returned"
    /\ UNCHANGED <<exceptStream, sg_streaming, sg_enabled, sg_chunks, sg_parts, sg_tail,
                   sg_usage, sg_triggered>>

\* one turn of the loop over the chunks
SgChunk ==
    /\ sg_pc = "stream"
    /\ sg_chunks < MaxStream
    /\ \E content \in ChunkContents, usage \in ChunkUsages :
         LET parts == IF content = "none" THEN sg_parts ELSE Append(sg_parts, content)
             tail == IF sg_enabled /\ content # "none"
                     THEN LastOf(Append(sg_tail, content), GuardWindow)
                     ELSE sg_tail
             broke == sg_enabled /\ content # "none" /\ StreamGuardTriggered(tail)
         IN /\ sg_chunks' = sg_chunks + 1
            /\ sg_parts' = parts
            /\ sg_tail' = tail
            /\ sg_triggered' = broke
            /\ sg_usage' = IF broke \/ usage = "none" THEN sg_usage ELSE usage
            /\ sg_pc' = IF broke THEN "ended" ELSE "stream"
    /\ UNCHANGED <<exceptStream, sg_streaming, sg_enabled, sg_requests, sg_result>>

\* the stream is exhausted
SgStreamEnds ==
    /\ sg_pc = "stream"
    /\ sg_pc' = "ended"
    /\ UNCHANGED <<exceptStream, sg_streaming, sg_enabled, sg_chunks, sg_parts, sg_tail,
                   sg_usage, sg_triggered, sg_requests, sg_result>>

\* the response rebuilt from the stream is returned
SgReturnStreamed ==
    /\ sg_pc = "ended"
    /\ UsageIsValid(sg_usage)
    /\ sg_result' = [source |-> "stream", content |-> sg_parts]
    /\ sg_pc' = "returned"
    /\ UNCHANGED <<exceptStream, sg_streaming, sg_enabled, sg_chunks, sg_parts, sg_tail,
                   sg_usage, sg_triggered, sg_requests>>

\* the usage of the rebuilt response is not valid: a request without streaming
SgFallBack ==
    /\ sg_pc = "ended"
    /\ ~UsageIsValid(sg_usage)
    /\ sg_requests' = sg_requests + 1
    /\ sg_result' = [source |-> "completion", content |-> <<>>]
    /\ sg_pc' = "returned"
    /\ UNCHANGED <<exceptStream, sg_streaming, sg_enabled, sg_chunks, sg_parts, sg_tail,
                   sg_usage, sg_triggered>>

InitStream ==
    /\ EarlyIdle
    /\ LateIdleButStream
    /\ sg_streaming \in BOOLEAN
    /\ sg_enabled \in BOOLEAN
    /\ sg_pc = "ready"
    /\ sg_chunks = 0
    /\ sg_parts = <<>>
    /\ sg_tail = <<>>
    /\ sg_usage = "none"
    /\ sg_triggered = FALSE
    /\ sg_requests = 0
    /\ sg_result = NoResponse

NextStream ==
    \/ SgRequestStream
    \/ SgQueryPlain
    \/ SgChunk
    \/ SgStreamEnds
    \/ SgReturnStreamed
    \/ SgFallBack

SpecStream == InitStream /\ [][NextStream]_vars

\* --------------------------------------------------------- recursive_merge
\* A dictionary is a function of its possible keys; a key the dictionary does not have
\* maps to Absent. A value is a leaf, UNSET, or (under "info") a dictionary of leaves
\* and UNSETs.
MergeKeys == {"info", "messages"}
InfoKeys == {"config", "exit_status"}
Leaves == {"earlier", "later"}

Absent == [kind |-> "absent"]
Unset == [kind |-> "unset"]
Leaf(v) == [kind |-> "leaf", leaf |-> v]
Dict(d) == [kind |-> "dict", items |-> d]

\* {} with the keys of d
EmptyOf(d) == [key \in DOMAIN d |-> Absent]
EmptyDict == [key \in MergeKeys |-> Absent]

InnerValues == {Absent, Unset} \cup {Leaf(v) : v \in Leaves}
InnerDicts == [InfoKeys -> InnerValues]
OuterValues == InnerValues \cup {Dict(d) : d \in InnerDicts}
OuterDicts == {d \in [MergeKeys -> OuterValues] : d["messages"].kind # "dict"}

\* a dictionaries argument that is None
NoDict == [none |-> TRUE, dict |-> EmptyDict]

RECURSIVE MergeInto(_, _)

\* the loop over one dictionary without the recursion: the later value always replaces
MergeIntoShallow(res, d) ==
    [key \in DOMAIN d |->
        IF d[key].kind \in {"absent", "unset"} THEN res[key] ELSE d[key]]

\* the loop over the items of one dictionary d
MergeInto(res, d) ==
    [key \in DOMAIN d |->
        IF d[key].kind \in {"absent", "unset"}
        THEN res[key]
        ELSE IF res[key].kind = "dict" /\ d[key].kind = "dict"
             THEN Dict(MergeInto(MergeInto(EmptyOf(d[key].items), res[key].items), d[key].items))
             ELSE d[key]]

\* recursive_merge is called
MgCall ==
    /\ mg_pc = "call"
    /\ mg_result' = EmptyDict
    /\ mg_before' = EmptyDict
    /\ mg_last' = NoDict
    /\ mg_pc' = "merge"
    /\ UNCHANGED <<exceptMerge, mg_count>>

\* the loop passes one dictionary
MgDictionary ==
    /\ mg_pc = "merge"
    /\ mg_count < MaxDicts
    /\ \E d \in OuterDicts :
         /\ mg_last' = [none |-> FALSE, dict |-> d]
         /\ mg_result' = MergeInto(mg_result, d)
    /\ mg_before' = mg_result
    /\ mg_count' = mg_count + 1
    /\ UNCHANGED <<exceptMerge, mg_pc>>

\* the loop passes a None
MgNone ==
    /\ mg_pc = "merge"
    /\ mg_count < MaxDicts
    /\ mg_count' = mg_count + 1
    /\ mg_before' = mg_result
    /\ mg_last' = NoDict
    /\ UNCHANGED <<exceptMerge, mg_pc, mg_result>>

\* the result is returned
MgReturn ==
    /\ mg_pc = "merge"
    /\ mg_pc' = "returned"
    /\ UNCHANGED <<exceptMerge, mg_count, mg_before, mg_last, mg_result>>

InitMerge ==
    /\ EarlyIdle
    /\ LateIdleButMerge
    /\ mg_pc = "call"
    /\ mg_count = 0
    /\ mg_before = <<>>
    /\ mg_last = <<>>
    /\ mg_result = <<>>

NextMerge ==
    \/ MgCall
    \/ MgDictionary
    \/ MgNone
    \/ MgReturn

SpecMerge == InitMerge /\ [][NextMerge]_vars

\* ------------------------------------------------- the shared prompt routine
\* what the user may type: the help command, a mode command, nothing, a text, and a
\* mode command or the help command followed by a blank
TypedInputs == {"/h", "/u", "/c", "/y", "", "text", "/u ", "/h "}

\* str.strip() of a typed input
PsStripped(input) ==
    CASE input = "/u " -> "/u"
      [] input = "/h " -> "/h"
      [] OTHER -> input

\* user_input: microsweagent's routine strips what console.input returns,
\* minisweagent's takes what prompt_session.prompt returns
PsUserInput(package, input) ==
    IF package = "microsweagent" THEN PsStripped(input) ELSE input

\* the routine is called: by query in human mode, by the confirmation of an action, by
\* the handler of an interruption
PsCall ==
    /\ ps_pc = "returned"
    /\ ps_prompts < MaxPrompts
    /\ ps_pc' = "prompt"
    /\ UNCHANGED <<exceptPrompt, ps_package, ps_mode, ps_prompts, ps_input, ps_before,
                   ps_returned>>

\* "/h": the help is printed and the routine calls itself
PsHelp ==
    /\ ps_pc = "prompt"
    /\ ps_prompts < MaxPrompts
    /\ \E input \in TypedInputs :
         /\ PsUserInput(ps_package, input) = "/h"
         /\ ps_input' = input
    /\ ps_before' = ps_mode
    /\ ps_prompts' = ps_prompts + 1
    /\ UNCHANGED <<exceptPrompt, ps_package, ps_mode, ps_pc, ps_returned>>

\* the command of the current mode: the routine calls itself with "Already in ... mode"
PsAlready ==
    /\ ps_pc = "prompt"
    /\ ps_prompts < MaxPrompts
    /\ \E input \in TypedInputs :
         /\ PsUserInput(ps_package, input) \in ModeCommands
         /\ ~PromptReturns(ps_mode, PsUserInput(ps_package, input))
         /\ ps_input' = input
    /\ ps_before' = ps_mode
    /\ ps_prompts' = ps_prompts + 1
    /\ UNCHANGED <<exceptPrompt, ps_package, ps_mode, ps_pc, ps_returned>>

\* the command of another mode: the mode is set and the input returned
PsSwitch ==
    /\ ps_pc = "prompt"
    /\ ps_prompts < MaxPrompts
    /\ \E input \in TypedInputs :
         /\ PsUserInput(ps_package, input) \in ModeCommands
         /\ PromptReturns(ps_mode, PsUserInput(ps_package, input))
         /\ ps_input' = input
         /\ ps_mode' = PromptMode(ps_mode, PsUserInput(ps_package, input))
         /\ ps_returned' = PsUserInput(ps_package, input)
    /\ ps_before' = ps_mode
    /\ ps_prompts' = ps_prompts + 1
    /\ ps_pc' = "returned"
    /\ UNCHANGED <<exceptPrompt, ps_package>>

\* any other input is returned
PsOther ==
    /\ ps_pc = "prompt"
    /\ ps_prompts < MaxPrompts
    /\ \E input \in TypedInputs :
         /\ PsUserInput(ps_package, input) \notin ModeCommands \cup {"/h"}
         /\ ps_input' = input
         /\ ps_returned' = PsUserInput(ps_package, input)
    /\ ps_before' = ps_mode
    /\ ps_prompts' = ps_prompts + 1
    /\ ps_pc' = "returned"
    /\ UNCHANGED <<exceptPrompt, ps_package, ps_mode>>

InitPrompt ==
    /\ EarlyIdle
    /\ LateIdleButPrompt
    /\ ps_package \in {"minisweagent", "microsweagent"}
    /\ ps_mode \in {"human", "confirm", "yolo"}
    /\ ps_pc = "prompt"
    /\ ps_prompts = 0
    /\ ps_input = "none"
    /\ ps_before = "none"
    /\ ps_returned = "none"

NextPrompt ==
    \/ PsCall
    \/ PsHelp
    \/ PsAlready
    \/ PsSwitch
    \/ PsOther

SpecPrompt == InitPrompt /\ [][NextPrompt]_vars

\* ------------------------------------------------------------------ claims
IsObservation(m) == m.role = "user" /\ m.content # <<>> /\ m.content[1] = "returncode"

\* the executions env.execute made for the turn at log index i
TurnExecs(i) == {k \in 1..Len(executed) : executed[k].turn = i}

\* C1: whenever a run ends with Submitted or LimitsExceeded, the last message of the
\* log has role "exit" and the recorded exit_status is not null.
C1_ExitMessageLast ==
    (pc = "done" /\ result.kind = "returned")
        => (Last(messages).role = "exit" /\ result.exit_status # Null)

C3_SavedEveryIteration ==
    (output_path /\ (pc = "done" \/ (pc = "loop" /\ Len(messages) > 2)))
        => out_file.messages = messages

C3_Witness ==
    /\ output_path
    /\ pc = "loop"
    /\ exc.e = "ExecutionTimeoutError"
    /\ Last(messages).content[1] = "timed_out"
    /\ out_file.messages = messages

\* C4: with step_limit = k > 0 the run makes at most k model queries; once the call
\* count has reached k the next limit check raises LimitsExceeded without a query,
\* and the run ends with exit_status LimitsExceeded.
C4_StepLimit ==
    /\ [](step_limit > 0 => n_queries <= step_limit)
    /\ [][(pc = "loop" /\ 0 < step_limit /\ step_limit <= n_calls)
            => (n_queries' = n_queries /\ pc' = "except" /\ exc'.e = "LimitsExceeded")]_vars
    /\ []((pc = "done" /\ exc.e = "LimitsExceeded")
            => (result.kind = "returned" /\ result.exit_status = "LimitsExceeded"))

C4_Witness ==
    /\ pc = "done"
    /\ step_limit = 2 /\ cost_limit = 0
    /\ n_queries = 2
    /\ result.exit_status = "LimitsExceeded"

C6_OtherExceptionSavedThenRaised ==
    (pc = "done" /\ exc.e \notin NonTerminating \cup Terminating)
        => /\ result.kind = "raised"
           /\ result.exit_status = exc.e
           /\ output_path =>
                 /\ out_file.info.exit_status = exc.e
                 /\ out_file.info.traceback # Null
                 /\ out_file.messages = messages

C6_Witness ==
    /\ pc = "done"
    /\ output_path
    /\ exc.e = "OSError"
    /\ result.kind = "raised"
    /\ out_file.info.traceback = "traceback"

\* C7: the log only grows by appending, so message 0 stays the system message and
\* message 1 the instance message with role user.
C7_AppendOnly ==
    [][/\ IsPrefix(messages, messages')
       /\ Len(messages') >= 2
             => /\ messages'[1] = [role |-> "system", content |-> SystemPrompt]
                /\ messages'[2] = [role |-> "user", content |-> InstancePrompt]]_vars

C7_Witness ==
    /\ Len(messages) >= 6
    /\ messages[1].role = "system"
    /\ messages[2].role = "user"

\* C8: in the text dialect a response yields an action only when the action regex
\* matches exactly once; with no match or several a FormatError is raised and no
\* command is executed for that turn.
C8_ExactlyOneMatch ==
    \A i \in 1..Len(messages) :
        messages[i].role = "assistant" =>
            LET found == FindAll(messages[i].content)
            IN /\ TurnExecs(i) # {} => Len(found) = 1
               /\ \A k \in TurnExecs(i) : executed[k].command = Strip(found[1])
               /\ (Len(found) # 1 /\ i < Len(messages))
                     => messages[i + 1]
                           = [role |-> "user", content |-> <<"format_error", NatStr(Len(found))>>]
               /\ (Len(found) # 1 /\ i = Len(messages) /\ pc = "except")
                     => exc.e = "FormatError"

C8_Witness ==
    /\ Len(messages) >= 6
    /\ Len(FindAll(messages[3].content)) = 2
    /\ TurnExecs(3) = {}
    /\ messages[4].content = <<"format_error", "2">>
    /\ Len(FindAll(messages[5].content)) = 1
    /\ TurnExecs(5) # {}

\* C9: every Model.query that returns gives a message whose extra.actions is a list
\* of at least one action; a response without an action makes query raise FormatError.
C9_QueryReturnsActions ==
    /\ mq_out.kind = "returned" => (mq_out.has_actions /\ Len(mq_out.actions) >= 1)
    /\ (mq_out.kind # "none" /\ FindAll(mq_response.content) = <<>> /\ mq_response.tool_calls = <<>>)
          => mq_out = Raised("FormatError")

\* C10: when an action times out, one timeout observation is produced for it and no
\* later action of the turn is executed or given an observation.
C10_TimeoutEndsTurn ==
    \A t \in em_timedout :
        /\ \A j \in em_execs : j <= t
        /\ \A k \in 1..Len(em_results) : em_results[k].msg <= t
        /\ \/ em_state = "ExecutionTimeoutError"
           \/ Cardinality({k \in 1..Len(em_results) : em_results[k].msg = t}) = 1


\* C11: a command timeout never ends the run: the output captured before the timeout
\* is part of the message fed back to the model, and the loop goes on to the next query.
C11_TimeoutFedBack ==
    /\ [](\A k \in 1..Len(executed) :
            executed[k].outcome = "timeout" =>
               LET i == executed[k].turn
                   fed == <<"timed_out">> \o executed[k].output
               IN /\ i = Len(messages) => (pc = "except" /\ exc.text = fed)
                  /\ i < Len(messages) => messages[i + 1] = [role |-> "user", content |-> fed])
    /\ [][(pc = "except" /\ exc.e = "ExecutionTimeoutError")
            => (pc' = "loop" /\ result'.kind = "none" /\ Len(messages') = Len(messages) + 1)]_vars

C11_Witness ==
    /\ pc = "observe"
    /\ Len(messages) = 5
    /\ \E k \in 1..Len(executed) :
          executed[k] = [turn |-> 3, command |-> <<"cmd">>, outcome |-> "timeout", output |-> <<"out">>]
    /\ messages[4] = [role |-> "user", content |-> <<"timed_out", "out">>]
    /\ messages[5].role = "assistant"


\* the sentinel is the first line that is not blank, at index i
SentinelFirstAt(ls, i) ==
    /\ i \in 1..Len(ls)
    /\ StripLine(ls[i]) = SENTINEL
    /\ \A j \in 1..(i - 1) : ls[j] = Blank

\* the sentinel is the last line that is not blank, at index i
SentinelLastAt(ls, i) ==
    /\ i \in 1..Len(ls)
    /\ StripLine(ls[i]) = SENTINEL
    /\ \A j \in (i + 1)..Len(ls) : ls[j] = Blank

\* C12: Submitted is raised only for an execution whose return code is 0; an output
\* with the sentinel line and a non-zero return code becomes an ordinary observation
\* and the call goes on.
C12_SubmittedOnlyOnZero ==
    (em_output # NoOutput /\ em_output.returncode # 0)
        => /\ em_state # "Submitted"
           /\ \E k \in 1..Len(em_results) : em_results[k].content = Observation(em_output)

\* C13: the local and singularity back-ends recognise a submission exactly when the
\* first non-blank line of the output is the sentinel, the docker back-end exactly when
\* the last non-blank line is; the payload is the rest of the output.
C13_SentinelPosition ==
    em_output # NoOutput =>
        LET ls == em_output.output
        IN /\ em_env \in {"LocalEnvironment", "SingularityEnvironment"} =>
                 /\ (em_state = "Submitted") <=> (\E i \in 1..Len(ls) : SentinelFirstAt(ls, i))
                 /\ \A i \in 1..Len(ls) :
                        (em_state = "Submitted" /\ SentinelFirstAt(ls, i))
                           => em_submission = SubSeq(ls, i + 1, Len(ls))
           /\ em_env = "DockerEnvironment" =>
                 /\ (em_state = "Submitted") <=> (\E i \in 1..Len(ls) : SentinelLastAt(ls, i))
                 /\ \A i \in 1..Len(ls) :
                        (em_state = "Submitted" /\ SentinelLastAt(ls, i))
                           => em_submission = SubSeq(ls, 1, i - 1)

\* C14: with DefaultAgent, a command whose output has the sentinel as its last line
\* ends the run with exit_status Submitted and the output before the sentinel line as
\* the submission.
C14_LastLineSubmits ==
    \A k \in 1..Len(executed) :
        (/\ executed[k].outcome \in {"ok", "submitted"}
         /\ executed[k].output # <<>>
         /\ Last(executed[k].output) = SENTINEL)
        => /\ executed[k].outcome = "submitted"
           /\ pc = "done" =>
                 /\ result.exit_status = "Submitted"
                 /\ result.submission = SubSeq(executed[k].output, 1, Len(executed[k].output) - 1)


\* C15: in confirm mode an action of the model that no whitelist pattern matches is
\* executed only after the user answered that action's confirmation prompt with Enter
\* or /y; after /u or any other text it is never executed.
C15_ConfirmBeforeExecute ==
    /\ \A i \in 1..Len(ia_executed) :
          (/\ ia_executed[i].mode = "confirm"
           /\ ia_messages[ia_executed[i].turn].kind = "lm"
           /\ ia_executed[i].command \notin WhitelistActions)
          => \E a \in ia_answers :
                /\ a.turn = ia_executed[i].turn
                /\ a.k = ia_executed[i].k
                /\ a.input \in {"", " ", "/y"}
    /\ \A a \in ia_answers :
          a.input \in {"/u", "text"}
          => ~\E i \in 1..Len(ia_executed) :
                 ia_executed[i].turn = a.turn /\ ia_executed[i].k = a.k

C15_Witness ==
    /\ \E a \in ia_answers : a.input = "text" /\ a.turn = 3
    /\ \E i \in 1..Len(ia_executed) :
          /\ ia_executed[i].mode = "confirm"
          /\ ia_executed[i].command = "rm"
          /\ ia_executed[i].turn = 6
          /\ [turn |-> 6, k |-> ia_executed[i].k, input |-> ""] \in ia_answers

\* C16: while the mode is human a step does not query the model, the assistant turn is
\* the command the user typed; the model is queried in the step only after /c or /y.
C16_HumanModeNoQuery ==
    [][(ia_pc = "step" /\ ia_mode = "human")
        => /\ ia_n_calls' # ia_n_calls => ia_input' \in {"/c", "/y"}
           /\ (ia_pc' = "actions" /\ ia_n_calls' = ia_n_calls)
                 => /\ ia_messages' = Append(ia_messages, [role |-> "assistant", kind |-> "human",
                                                           content |-> <<ia_input'>>])
                    /\ ia_actions' = <<ia_input'>>]_vars

C16_Witness ==
    /\ Len(ia_messages) >= 5
    /\ ia_messages[3].kind = "human"
    /\ ia_messages[5].kind = "lm"
    /\ ia_input = "/c"
    /\ ia_n_calls = 1

AbortClass == {"UnsupportedParamsError", "NotFoundError", "PermissionDeniedError",
               "ContextWindowExceededError", "AuthenticationError", "KeyboardInterrupt"}

\* C19: one query issues at most the configured number of provider requests (10, or
\* the value of MSWEA_MODEL_RETRY_STOP_AFTER_ATTEMPT) and, if all of them fail, ends by
\* raising the last provider error.
C19_BoundedAttempts ==
    /\ rt_attempts <= (IF rt_env = 0 THEN DefaultAttempts ELSE rt_env)
    /\ rt_state = "raised" => rt_raised = rt_last_error

\* C20: an abort-class provider error is never retried: the request that met it is the
\* last one and the error is propagated.
C20_AbortNotRetried ==
    rt_last_error \in AbortClass
        => /\ rt_state = "raised"
           /\ rt_raised = rt_last_error


\* the provider errors the specification calls transient: rate limit, 5xx, transport
TransientClass == {"RateLimitError", "InternalServerError", "APIConnectionError"}

\* C21: a transient provider error met while attempts are left is followed by another
\* request, and a query that returned has raised nothing: the failures before the
\* successful request are not surfaced.
C21_TransientRetried ==
    /\ [](rt_state = "returned" => rt_raised = "none")
    /\ [][(/\ rt_attempts' = rt_attempts + 1
           /\ rt_state' # "returned"
           /\ rt_last_error' \in TransientClass
           /\ rt_attempts' < (IF rt_env = 0 THEN DefaultAttempts ELSE rt_env))
              => rt_state' = "waiting"]_vars

C21_Witness ==
    /\ rt_state = "returned"
    /\ rt_last_error \in TransientClass
    /\ rt_attempts = 3


\* the cost calculation of the last query went wrong: it failed or gave no positive cost
CostFaulty == cs_last.failed \/ cs_last.calc <= 0

\* C22: a query whose cost calculation fails or gives a cost that is not positive
\* raises under cost_tracking = default, and returns with the cost recorded as 0
\* under cost_tracking = ignore_errors.
C22_CostPositive ==
    (cs_last.kind # "none" /\ CostFaulty)
        => /\ cs_tracking = "default" => cs_last.kind = "raised"
           /\ cs_tracking = "ignore_errors" => (cs_last.kind = "returned" /\ cs_last.cost = 0)

RECURSIVE SumOver(_, _)
SumOver(f, S) ==
    IF S = {} THEN 0
    ELSE LET m == CHOOSE x \in S : TRUE IN f[m] + SumOver(f, S \ {m})

\* C23: each model's n_calls and cost are the number and the summed cost of the
\* responses its queries returned, and GLOBAL_MODEL_STATS holds the sums over the models.
C23_TotalsAgree ==
    /\ \A m \in Models :
          /\ cs_n_calls[m] = cs_obtained[m].n
          /\ cs_cost[m] = cs_obtained[m].cost
    /\ cs_global.n_calls = SumOver(cs_n_calls, Models)
    /\ cs_global.cost = SumOver(cs_cost, Models)


\* the i-th message is built from the i-th output
FoPaired ==
    \A i \in 1..Len(fo_result) :
        i <= Len(fo_outputs) /\ fo_result[i].content = Observation(fo_outputs[i])

\* C24 as stated: given one output for each action, there are as many messages as
\* actions, the i-th built from the i-th output, and in both tool-call dialects every
\* message has role "tool" and the tool_call_id of the i-th action.
C24_RoleToolEverywhere ==
    (fo_done /\ Len(fo_outputs) = Len(fo_actions))
        => /\ Len(fo_result) = Len(fo_actions)
           /\ FoPaired
           /\ fo_dialect \in {"toolcall", "response"}
                 => \A i \in 1..Len(fo_result) :
                       /\ fo_result[i].role = "tool"
                       /\ fo_result[i].tool_call_id = fo_actions[i].tool_call_id

\* C24, amended: the messages are as many as the shorter of the two lists (in the
\* text dialect: as the outputs), so as many as the actions when each action has its
\* output; the i-th is built from the i-th output; LitellmToolcallModel gives it role
\* "tool" and the i-th action's tool_call_id, the Responses API dialect gives it no
\* role but type "function_call_output" and the i-th action's id as call_id.
C24_ObservationsPaired ==
    fo_done
        => /\ Len(fo_result) = IF fo_dialect = "text" THEN Len(fo_outputs)
                               ELSE ZipLen(fo_actions, fo_outputs)
           /\ Len(fo_outputs) = Len(fo_actions) => Len(fo_result) = Len(fo_actions)
           /\ FoPaired
           /\ fo_dialect = "toolcall"
                 => \A i \in 1..Len(fo_result) :
                       /\ fo_result[i].role = "tool"
                       /\ fo_result[i].tool_call_id = fo_actions[i].tool_call_id
           /\ fo_dialect = "response"
                 => \A i \in 1..Len(fo_result) :
                       /\ fo_result[i].role = Null
                       /\ fo_result[i].type = "function_call_output"
                       /\ fo_result[i].call_id = fo_actions[i].tool_call_id

C24_Witness ==
    /\ fo_done
    /\ fo_dialect = "response"
    /\ Len(fo_actions) = 2
    /\ Len(fo_outputs) = 2
    /\ fo_actions[1].tool_call_id # fo_actions[2].tool_call_id
    /\ fo_outputs[1] # fo_outputs[2]
    /\ Len(fo_result) = 2


\* a response the tool-call dialect cannot take: no tool call, a tool other than bash,
\* or arguments that are not a JSON object with a command
Malformed(tool_calls) ==
    \/ tool_calls = <<>>
    \/ \E i \in 1..Len(tool_calls) :
          tool_calls[i].name # "bash" \/ tool_calls[i].arguments # "json_command"

\* C25: in the tool-call dialect a malformed response makes the parsing raise
\* FormatError, and the parsing raises nothing but FormatError.
C25_OnlyFormatError ==
    (mq_client \in ToolClients /\ mq_out.kind # "none")
        => /\ Malformed(mq_response.tool_calls)
                 => (mq_out.kind = "raised" /\ mq_out.exc = "FormatError")
           /\ mq_out.kind = "raised" => mq_out.exc = "FormatError"


\* the first step has ended in a FormatError and run() is back at the head of its loop
FirstTurnFormatError == pc = "loop" /\ n_queries = 1 /\ exc.e = "FormatError"

LimitsExceededRaised == exc.e = "LimitsExceeded"

\* C27: with step_limit = 0 the call count never raises LimitsExceeded and with
\* cost_limit = 0 the cost never does: a LimitsExceeded comes from a limit that is
\* positive, and none comes when both are 0.
C27_ZeroDisables ==
    LimitsExceededRaised
        => /\ step_limit = 0 => (0 < cost_limit /\ cost_limit <= cost)
           /\ cost_limit = 0 => (0 < step_limit /\ step_limit <= n_calls)

C27_Witness ==
    /\ step_limit = 0
    /\ cost_limit = 0
    /\ n_calls = MaxSteps
    /\ cost >= MaxSteps
    /\ pc = "loop"

\* C28: a positive cost_limit alone raises LimitsExceeded only once the accumulated
\* cost has exceeded it.
C28_CostExceeded ==
    (LimitsExceededRaised /\ ~(0 < step_limit /\ step_limit <= n_calls))
        => (0 < cost_limit /\ cost_limit < cost)


\* C29: once the run has ended, or the construction has failed, and the environment
\* object is gone, the container, sandbox or directory it acquired exists no more.
C29_ResourcesReleased ==
    lc_state = "destroyed" => ~lc_held


\* the file at the path holds a whole document
WholeDocument(file) == file.chunks = file.total

\* C30: whenever a reader looks, and wherever a crash stops a save, the file at the
\* path is absent or holds one whole serialized trajectory.
C30_AtomicReplace ==
    sv_file.exists => WholeDocument(sv_file)


\* a step failed on rendering a template
RenderFailed == exc.text # <<>> /\ exc.text[1] = "undefined"

\* C31: rendering a template that references an unbound variable raises a FormatError,
\* which is recoverable: its text is fed back as a user message and the run goes on.
C31_UnboundIsFormatError ==
    RenderFailed => (exc.e = "FormatError" /\ pc # "done")


\* C32: the batch orchestrator never has more than N instances in flight at the same
\* time, N being the configured worker count.
C32_BoundedInFlight == Cardinality(BtRunning) <= bt_workers

C32_Witness ==
    /\ bt_workers = 2
    /\ Cardinality(BtRunning) = 2
    /\ \E i \in Instances : bt_status[i] = "pending" /\ ~BtSkips(i)
    /\ bt_interrupts = 0


\* C33: with step_limit = k > 0 every run ends after at most k model queries whatever
\* the model returns, because every model turn, one that ends in a FormatError or in
\* a timeout included, counts toward the limit.
C33_StepLimitTerminates ==
    /\ [](n_queries <= step_limit)
    /\ [](pc \in {"loop", "observe"} => n_calls = n_queries)
    /\ [][(pc = "except" /\ exc.e \in NonTerminating) => n_calls' = n_queries]_vars
    /\ <>(pc = "done")

C33_Witness ==
    /\ pc = "done"
    /\ step_limit = 2
    /\ n_queries = 2
    /\ result.exit_status = "LimitsExceeded"
    /\ Len(messages) = 7
    /\ messages[4].content[1] = "format_error"
    /\ messages[6].content[1] = "timed_out"


\* C34: every message appended to the log since the previous model response is part
\* of the input of the next model query; none is skipped on its way to the model.
C34_NoMessageSkipped == ra_last.ok => ra_last.since \subseteq ra_last.input


C35_ExecutesOnce ==
    /\ ex_call.ended \in {"returned", "raised"} => ex_call.runs = 1
    /\ ex_counter <= ex_incrs


\* C36: the context MemoryAgent sends to the model loses no history: every message of
\* the log is sent as it is (the system message, the recent window) or lies in the
\* range the injected summary was built from.
C36_NoHistoryLost ==
    mm_context.len > 0 =>
        \A i \in 1..mm_context.len :
            \/ i = 1 /\ mm_context.system
            \/ i \in mm_context.recent
            \/ i \in mm_context.summary


\* C38: when the streaming guard has broken the loop, _query returns the content
\* accumulated from the stream and has made one request only
C38_GuardReturnsAccumulated ==
    (sg_pc = "returned" /\ sg_triggered) =>
        /\ sg_result = [source |-> "stream", content |-> sg_parts]
        /\ sg_requests = 1


\* the value the later of two dictionaries gives a key, a missing key giving the earlier's
LaterWins(a, b) == IF b.kind = "absent" THEN a ELSE b

\* the same with UNSET counted as a missing key
LaterSetWins(a, b) == IF b.kind \in {"absent", "unset"} THEN a ELSE b

\* C39 as stated: on a key collision the later dictionary's value is kept, two
\* dictionaries are merged by the same rule, a key of one input only is kept unchanged
C39_LaterWins ==
    (mg_pc = "merge" /\ mg_count > 0 /\ ~mg_last.none) =>
        \A key \in MergeKeys :
            LET a == mg_before[key]
                b == mg_last.dict[key]
            IN mg_result[key] =
                 IF a.kind = "dict" /\ b.kind = "dict"
                 THEN Dict([k \in InfoKeys |-> LaterWins(a.items[k], b.items[k])])
                 ELSE LaterWins(a, b)

\* C39 amended: the same, a value that is UNSET counting as a key the dictionary being
\* merged does not have (in the later dictionary, and in both of two dictionaries that
\* are merged key by key)
C39_LaterSetWins ==
    (mg_pc = "merge" /\ mg_count > 0 /\ ~mg_last.none) =>
        \A key \in MergeKeys :
            LET a == mg_before[key]
                b == mg_last.dict[key]
            IN mg_result[key] =
                 IF a.kind = "dict" /\ b.kind = "dict"
                 THEN Dict([k \in InfoKeys |->
                              LaterSetWins(LaterSetWins(Absent, a.items[k]), b.items[k])])
                 ELSE LaterSetWins(a, b)

\* the third dictionary overrides one key of "info", leaves the other (for which it
\* has UNSET) as the earlier ones gave it, and does not touch "messages"
C39_Witness ==
    /\ mg_pc = "merge"
    /\ mg_count = 3
    /\ ~mg_last.none
    /\ mg_before["messages"] = Leaf("earlier")
    /\ mg_before["info"] = Dict([config |-> Leaf("earlier"), exit_status |-> Leaf("earlier")])
    /\ mg_last.dict["messages"] = Absent
    /\ mg_last.dict["info"] = Dict([config |-> Unset, exit_status |-> Leaf("later")])
    /\ mg_result["messages"] = Leaf("earlier")
    /\ mg_result["info"] = Dict([config |-> Leaf("earlier"), exit_status |-> Leaf("later")])


\* the mode a command names
C40_Named(command) ==
    CASE command = "/u" -> "human"
      [] command = "/c" -> "confirm"
      [] command = "/y" -> "yolo"
      [] OTHER -> "none"

\* C40: the input the prompt routine has read changed the mode exactly if it is /u, /c
\* or /y naming a mode other than the one the agent was in, and then the mode is the
\* named one; after /h, the command of the current mode or any other input the mode is
\* what it was (the input is taken as the routine compares it)
C40_ModeChanges ==
    ps_prompts > 0 =>
        LET named == C40_Named(PsUserInput(ps_package, ps_input))
        IN IF named \notin {"none", ps_before}
           THEN ps_mode = named
           ELSE ps_mode = ps_before

\* after /h and /c in confirm mode, which changed nothing, /u has switched to human mode
C40_Witness ==
    /\ ps_prompts = 3
    /\ ps_input = "/u"
    /\ ps_before = "confirm"
    /\ ps_mode = "human"
    /\ ps_returned = "/u"
    /\ ps_pc = "returned"

====
